---- MODULE Spec2Model ----
(***************************************************************************)
(* Demand-to-match pipeline of the travel planner backend:                 *)
(*   recommend_hotels          (app/api/v1/recommendations.py)             *)
(*   ChatGPTService            (app/services/chatgpt_service.py)           *)
(*   BookingService            (app/services/booking_service.py)           *)
(*   hotel CRUD                (app/crud/hotel.py)                         *)
(* Texts are TLA+ strings, money is kept in cents, ratings in tenths and   *)
(* ranking scores in hundredths, so that the float arithmetic of the       *)
(* source is exact integer arithmetic here.                                *)
(***************************************************************************)
EXTENDS Integers, Sequences, FiniteSets, TLC

VARIABLES
    client,             \* ChatGPTService.client is not None (credential configured)
    booking_api_key,    \* BookingService.api_key is non-empty
    store,              \* table "hotels": hotel_id -> booking_data
    requests,           \* number of requests started so far
    stage,              \* position of the running recommend_hotels call
    user_demand,        \* request.user_demand
    search_params,      \* SearchParameters built at step 1
    hotels,             \* candidate list returned by search_hotels
    persist,            \* outcome of the step 2.5 attempt
    matched_hotel_ids,  \* list returned by filter_hotels_by_demand
    matched_hotels,     \* HotelInfo list built at step 4
    response,           \* RecommendationResponse or HTTPException
    log,                \* trace of the calls made by this request
    reply,              \* outcome of the inference-service call of the last step
    lookup_failures,    \* identifiers whose get_hotel call raised at step 4
    calls,              \* trace of the operations exercised on their own
    sessions,           \* the database sessions of requests that write concurrently
    hash_secret         \* the str-hash key each worker process drew when it started

vars == <<client, booking_api_key, store, requests, stage, user_demand,
          search_params, hotels, persist, matched_hotel_ids, matched_hotels,
          response, log, reply, lookup_failures, calls, sessions, hash_secret>>

(***************************************************************************)
(* Python values                                                           *)
(***************************************************************************)
\* None of an Optional[float] / Optional[int] field
None == -1
\* None of an Optional[str] field
NoneStr == "<None>"
\* None of an Optional[List[str]] field
NoneList == <<"<None>">>

\* bool(x) of an Optional number: None and 0 are falsy
Truthy(x) == x # None /\ x # 0

(***************************************************************************)
(* str operations                                                          *)
(***************************************************************************)
UpperChars == "ABCDEFGHIJKLMNOPQRSTUVWXYZ"
LowerChars == "abcdefghijklmnopqrstuvwxyz"
DigitChars == "0123456789"

\* s[i-1:j] of Python (1-based, inclusive, clamped to the string)
Slice(s, i, j) ==
    IF i > j \/ i > Len(s) \/ j < 1 THEN ""
    ELSE SubSeq(s, IF i < 1 THEN 1 ELSE i, IF j > Len(s) THEN Len(s) ELSE j)

CharAt(s, i) == Slice(s, i, i)

\* k in t
Contains(t, k) ==
    LET n == Len(k)
    IN  \/ n = 0
        \/ \E i \in 1..(Len(t) - n + 1) :
              SubSeq(t, i, i) = SubSeq(k, 1, 1) /\ SubSeq(t, i, i + n - 1) = k

\* the lower-case letter of each upper-case letter
ToLower == [c \in {SubSeq(UpperChars, i, i) : i \in 1..26} |->
               LET i == CHOOSE j \in 1..26 : SubSeq(UpperChars, j, j) = c
               IN  SubSeq(LowerChars, i, i)]

LowerChar(c) == IF c \in DOMAIN ToLower THEN ToLower[c] ELSE c

\* the positions of the upper-case letters of s
UpperPositions(s) == {i \in 1..Len(s) : SubSeq(s, i, i) \in DOMAIN ToLower}

RECURSIVE StrLower(_)
\* s.lower(): every upper-case letter replaced, from the first one on
StrLower(s) ==
    LET ups == UpperPositions(s)
    IN  IF ups = {} THEN s
        ELSE LET p == CHOOSE i \in ups : \A j \in ups : i <= j
             IN  Slice(s, 1, p - 1) \o LowerChar(CharAt(s, p))
                     \o StrLower(Slice(s, p + 1, Len(s)))

\* s.title() for the lower-case words of the gazetteer
TitleWord(s) ==
    IF Len(s) = 0 THEN s
    ELSE (IF \E i \in 1..26 : CharAt(LowerChars, i) = CharAt(s, 1)
          THEN CharAt(UpperChars, CHOOSE i \in 1..26 : CharAt(LowerChars, i) = CharAt(s, 1))
          ELSE CharAt(s, 1)) \o Slice(s, 2, Len(s))

RECURSIVE StrTitle(_)
StrTitle(s) ==
    IF ~Contains(s, " ") THEN TitleWord(s)
    ELSE LET i == CHOOSE j \in 1..Len(s) :
                    CharAt(s, j) = " " /\ \A k \in 1..(j - 1) : CharAt(s, k) # " "
         IN  TitleWord(Slice(s, 1, i - 1)) \o " " \o StrTitle(Slice(s, i + 1, Len(s)))

Digits == {SubSeq(DigitChars, i, i) : i \in 1..10}
DigitValue == [c \in Digits |-> (CHOOSE i \in 1..10 : SubSeq(DigitChars, i, i) = c) - 1]

IsDigit(c) == c \in Digits
IsSpace(c) == c = " "
DigitVal(c) == DigitValue[c]

RECURSIVE ParseInt(_)
\* int(s) of a string of digits
ParseInt(s) ==
    IF Len(s) = 0 THEN 0
    ELSE 10 * ParseInt(Slice(s, 1, Len(s) - 1)) + DigitVal(CharAt(s, Len(s)))

RECURSIVE DigitRunEnd(_, _)
\* end of the longest run of digits that starts at i (i - 1 if there is none)
DigitRunEnd(s, i) ==
    IF i <= Len(s) /\ IsDigit(CharAt(s, i)) THEN DigitRunEnd(s, i + 1) ELSE i - 1

RECURSIVE SpaceRunEnd(_, _)
\* end of the longest run of white space that starts at i (i - 1 if there is none)
SpaceRunEnd(s, i) ==
    IF i <= Len(s) /\ IsSpace(CharAt(s, i)) THEN SpaceRunEnd(s, i + 1) ELSE i - 1

MinOf(S) == CHOOSE x \in S : \A y \in S : x <= y

(***************************************************************************)
(* re.search for the budget patterns.  A result is None when the pattern   *)
(* does not match, the number captured by group 1 otherwise.               *)
(***************************************************************************)
RECURSIVE AfterWords(_, _, _)
\* position that follows  w1 \s+ w2 \s+ ... wn \s+  matched from position i, 0 if
\* the words do not match there
AfterWords(s, i, words) ==
    IF words = <<>> THEN i
    ELSE LET w  == Head(words)
             sp == SpaceRunEnd(s, i + Len(w))
         IN  IF Slice(s, i, i + Len(w) - 1) = w /\ sp >= i + Len(w)
             THEN AfterWords(s, sp + 1, Tail(words))
             ELSE 0

\* start positions where  w1 \s+ ... wn \s+ (\d+)  matches
WordsNumStarts(s, words) ==
    {i \in 1..Len(s) :
        LET p == AfterWords(s, i, words)
        IN  p # 0 /\ p <= Len(s) /\ IsDigit(CharAt(s, p))}

\* re.search(r"w1\s+...wn\s+(\d+)", s)
SearchWordsNum(s, words) ==
    IF WordsNumStarts(s, words) = {} THEN None
    ELSE LET p == AfterWords(s, MinOf(WordsNumStarts(s, words)), words)
         IN  ParseInt(Slice(s, p, DigitRunEnd(s, p)))

\* start positions where  (\d+) \s* word  matches.  The group is a whole run of
\* digits: a shorter group would have to be followed by white space or the word
NumWordStarts(s, word) ==
    {i \in 1..Len(s) :
        /\ IsDigit(CharAt(s, i))
        /\ LET e == DigitRunEnd(s, i)
           IN  \E p \in e..SpaceRunEnd(s, e + 1) : Slice(s, p + 1, p + Len(word)) = word}

\* re.search(r"(\d+)\s*" + word, s): the group of the leftmost match
SearchNumWord(s, word) ==
    IF NumWordStarts(s, word) = {} THEN None
    ELSE LET i == MinOf(NumWordStarts(s, word))
         IN  ParseInt(Slice(s, i, DigitRunEnd(s, i)))

\* float(match.group(1)), in cents
EurosToCents(n) == 100 * n

(***************************************************************************)
(* Exceptions and results.  A call either returns a value or raises.       *)
(***************************************************************************)
Return(v) == [ok |-> TRUE, value |-> v]
Raise(type, msg) == [ok |-> FALSE, type |-> type, msg |-> msg]

\* the exception classes that derive from ValueError (json.JSONDecodeError does)
ValueErrorTypes == {"ValueError", "JSONDecodeError"}
\* openai.RateLimitError derives from openai.APIError
APIErrorTypes == {"APIError", "RateLimitError"}

(***************************************************************************)
(* The inference service.  One call of client.chat.completions.create      *)
(* either returns a message content or raises.  A content is described by  *)
(* its form: plain JSON, JSON inside a ```json fence, a fence around text  *)
(* that is no JSON, or text that is no JSON and has no fence.              *)
(***************************************************************************)
ContentForms == {"json", "fenced", "fenced_garbage", "garbage"}

ErrorMessages ==
    { "Error code: 429 - You exceeded your current quota",
      "Error code: 400 - INSUFFICIENT_QUOTA",
      "Error code: 400 - Rate_Limit_Exceeded",
      "Error code: 500 - The server had an error",
      "Request timed out.",
      "Connection error." }

ServiceErrors ==
    {Raise(t, m) : t \in APIErrorTypes, m \in ErrorMessages}
        \cup {Raise("Exception", "unexpected")}

\* the quota / rate limit test without the two calls of lower()
IsQuotaErrorCaseSensitive(e) ==
    \/ Contains(e.msg, "insufficient_quota")
    \/ Contains(e.msg, "429")
    \/ Contains(e.msg, "rate_limit")
    \/ e.type = "RateLimitError"

\* the quota / rate limit test of the two except clauses
IsQuotaError(e) ==
    \/ Contains(StrLower(e.msg), "insufficient_quota")
    \/ Contains(e.msg, "429")
    \/ Contains(StrLower(e.msg), "rate_limit")
    \/ e.type = "RateLimitError"

(***************************************************************************)
(* ChatGPTParameterExtractionResponse                                      *)
(***************************************************************************)
ExtractionResponse(loc, cin, cout, bmin, bmax, ad, ch, rm, prefs) ==
    [location |-> loc, check_in |-> cin, check_out |-> cout,
     budget_min |-> bmin, budget_max |-> bmax,
     adults |-> ad, children |-> ch, rooms |-> rm, preferences |-> prefs]

(***************************************************************************)
(* ChatGPTService._fallback_extract_parameters                             *)
(***************************************************************************)
locations ==
    << "italy", "france", "spain", "paris", "rome", "london", "berlin", "amsterdam",
       "vienna", "prague", "barcelona", "madrid", "milan", "venice", "florence",
       "lake como", "tuscany", "santorini", "mykonos", "bali", "thailand" >>

\* first gazetteer entry contained in the demand, title-cased
FallbackLocation(user_lower) ==
    LET hits == {i \in 1..Len(locations) : Contains(user_lower, locations[i])}
    IN  IF hits = {} THEN NoneStr ELSE StrTitle(locations[MinOf(hits)])

\* first element of a sequence of re.search results that matched, None if none did
FirstMatch(results) ==
    LET hits == {i \in 1..Len(results) : results[i] # None}
    IN  IF hits = {} THEN None ELSE results[MinOf(hits)]

\* the budget patterns with the currency patterns tried before the word patterns
FallbackExtractBudgetMaxCurrencyFirst(user_lower) ==
    LET n == FirstMatch(<< SearchNumWord(user_lower, "€"),
                           SearchNumWord(user_lower, "eur"),
                           SearchNumWord(user_lower, "euro"),
                           SearchWordsNum(user_lower, <<"under">>),
                           SearchWordsNum(user_lower, <<"below">>),
                           SearchWordsNum(user_lower, <<"less", "than">>),
                           SearchWordsNum(user_lower, <<"up", "to">>),
                           SearchWordsNum(user_lower, <<"max">>),
                           SearchWordsNum(user_lower, <<"maximum">>) >>)
    IN  IF n = None THEN None ELSE EurosToCents(n)

\* budget_max: the budget patterns in priority order, first match wins
FallbackExtractBudgetMax(user_lower) ==
    LET n == FirstMatch(<< SearchWordsNum(user_lower, <<"under">>),
                           SearchWordsNum(user_lower, <<"below">>),
                           SearchWordsNum(user_lower, <<"less", "than">>),
                           SearchWordsNum(user_lower, <<"up", "to">>),
                           SearchWordsNum(user_lower, <<"max">>),
                           SearchWordsNum(user_lower, <<"maximum">>),
                           SearchNumWord(user_lower, "€"),
                           SearchNumWord(user_lower, "eur"),
                           SearchNumWord(user_lower, "euro") >>)
    IN  IF n = None THEN None ELSE EurosToCents(n)

\* the preference table of the extractor, in dict order
pref_keywords ==
    << <<"romantic", {"romantic", "romance", "couple", "honeymoon"}>>,
       <<"family",   {"family", "family-friendly", "kids", "children"}>>,
       <<"luxury",   {"luxury", "luxurious", "5-star", "five star"}>>,
       <<"beach",    {"beach", "seaside", "coastal", "ocean"}>>,
       <<"mountain", {"mountain", "alpine", "ski"}>>,
       <<"city",     {"city", "urban", "downtown"}>> >>

RECURSIVE DetectTags(_, _)
\* the tags of a keyword table whose keywords occur in the text, in table order
DetectTags(text, table) ==
    IF table = <<>> THEN <<>>
    ELSE (IF \E kw \in Head(table)[2] : Contains(text, kw)
          THEN <<Head(table)[1]>> ELSE <<>>) \o DetectTags(text, Tail(table))

\* re.search(r"(\d+)\s+adult", user_lower), 1 when there is no match
FallbackAdults(user_lower) ==
    LET starts == {i \in 1..Len(user_lower) :
                      /\ IsDigit(CharAt(user_lower, i))
                      /\ LET e  == DigitRunEnd(user_lower, i)
                             sp == SpaceRunEnd(user_lower, e + 1)
                         IN  sp >= e + 1 /\ Slice(user_lower, sp + 1, sp + 5) = "adult"}
    IN  IF starts = {} THEN 1
        ELSE ParseInt(Slice(user_lower, MinOf(starts), DigitRunEnd(user_lower, MinOf(starts))))

fallback_extract_parameters(demand) ==
    LET user_lower  == StrLower(demand)
        preferences == DetectTags(user_lower, pref_keywords)
    IN  ExtractionResponse(FallbackLocation(user_lower), NoneStr, NoneStr,
                           None, FallbackExtractBudgetMax(user_lower),
                           FallbackAdults(user_lower), 0, 1,
                           IF preferences # <<>> THEN preferences ELSE NoneList)

(***************************************************************************)
(* extract_search_parameters.  svc is what the inference service does with *)
(* the call: Return([form, params]) or Raise(...).                         *)
(***************************************************************************)
extract_search_parameters(has_client, demand, svc) ==
    IF ~has_client
    THEN \* self.client is None: the attribute access raises inside the try, and the
         \* except Exception clause re-raises
         Raise("AttributeError", "'NoneType' object has no attribute 'chat'")
    ELSE IF svc.ok
    THEN CASE svc.value.form = "json"           -> Return(svc.value.params)
           [] svc.value.form = "fenced"         -> Return(svc.value.params)
           [] svc.value.form = "fenced_garbage" -> Raise("JSONDecodeError", "Expecting value")
           [] svc.value.form = "garbage"        -> Raise("JSONDecodeError", "Expecting value")
    ELSE IF svc.type \in APIErrorTypes /\ IsQuotaError(svc)
    THEN Return(fallback_extract_parameters(demand))
    ELSE svc

(***************************************************************************)
(* SearchParameters as built by recommend_hotels                           *)
(***************************************************************************)
ToSearchParameters(p) ==
    [location |-> p.location, check_in |-> p.check_in, check_out |-> p.check_out,
     budget_min |-> p.budget_min, budget_max |-> p.budget_max,
     adults |-> IF Truthy(p.adults) THEN p.adults ELSE 1,
     children |-> IF Truthy(p.children) THEN p.children ELSE 0,
     rooms |-> IF Truthy(p.rooms) THEN p.rooms ELSE 1,
     preferences |-> IF p.preferences = NoneList THEN <<>> ELSE p.preferences]

(***************************************************************************)
(* BookingService: the synthetic candidate provider                        *)
(***************************************************************************)
RECURSIVE IntStr(_)
\* str(n) of a natural number
IntStr(n) ==
    IF n < 10 THEN CharAt(DigitChars, n + 1)
    ELSE IntStr(n \div 10) \o CharAt(DigitChars, (n % 10) + 1)

\* str(x) of an Optional[float] kept in cents
FloatStr(c) ==
    IF c = None THEN "None"
    ELSE IntStr(c \div 100) \o "." \o
         (IF c % 10 = 0 THEN IntStr((c % 100) \div 10)
          ELSE IntStr((c % 100) \div 10) \o IntStr(c % 10))

RECURSIVE JoinQuoted(_)
JoinQuoted(list) ==
    IF list = <<>> THEN ""
    ELSE "'" \o Head(list) \o "'" \o
         (IF Len(list) > 1 THEN ", " ELSE "") \o JoinQuoted(Tail(list))

\* str(list) of a list of strings
ListStr(list) == "[" \o JoinQuoted(list) \o "]"

\* hashlib.md5(text).hexdigest()[:8]; the digest is represented by the text it was
\* computed from, so two digests are equal exactly when the texts are
Md5Hex8(text) == "md5(" \o text \o ")"

get_country_from_location(location) ==
    LET location_lower == StrLower(location)
        any(cs) == \E c \in cs : Contains(location_lower, c)
    IN  CASE any({"paris", "lyon", "nice", "marseille", "france"}) -> "France"
          [] any({"rome", "milan", "venice", "florence", "italy", "naples"}) -> "Italy"
          [] any({"london", "manchester", "edinburgh", "uk", "england"}) -> "United Kingdom"
          [] any({"barcelona", "madrid", "seville", "spain"}) -> "Spain"
          [] any({"berlin", "munich", "frankfurt", "germany"}) -> "Germany"
          [] any({"amsterdam", "netherlands", "holland"}) -> "Netherlands"
          [] any({"vienna", "austria"}) -> "Austria"
          [] any({"prague", "czech"}) -> "Czech Republic"
          [] OTHER -> "France"

\* the ten archetypes of the synthetic catalog, in catalog order
generate_mock_hotel_database(location, query_hash) ==
    <<
       [hotel_id |-> query_hash \o "_luxury_1",
        name |-> "Grand Palace Hotel " \o location,
        city |-> location,
        country |-> get_country_from_location(location),
        price |-> 35000,
        rating |-> 49,
        review_score |-> 95,
        amenities |-> <<"WiFi", "Pool", "Spa", "Fitness Center", "Restaurant", "Bar", "Room Service", "Concierge", "Valet Parking", "Business Center">>,
        description |->
            "Luxurious 5-star hotel in the heart of " \o location \o ". Features elegant rooms, world-class spa, fine dining, and exceptional service. Perfect for business travelers and romantic getaways."],
       [hotel_id |-> query_hash \o "_resort_1",
        name |-> "Seaside Luxury Resort " \o location,
        city |-> location,
        country |-> get_country_from_location(location),
        price |-> 28000,
        rating |-> 47,
        review_score |-> 91,
        amenities |-> <<"WiFi", "Pool", "Spa", "Beach Access", "Restaurant", "Bar", "Water Sports", "Kids Club", "Beach Bar", "Tennis Court">>,
        description |->
            "Stunning beachfront resort in " \o location \o " with direct beach access. Features infinity pool, spa, multiple restaurants, and water sports. Ideal for families and couples seeking relaxation."],
       [hotel_id |-> query_hash \o "_boutique_1",
        name |-> "Romantic Boutique Hotel " \o location,
        city |-> location,
        country |-> get_country_from_location(location),
        price |-> 18000,
        rating |-> 46,
        review_score |-> 89,
        amenities |-> <<"WiFi", "Spa", "Restaurant", "Bar", "Romantic Packages", "Couples Massage", "Rooftop Terrace", "Wine Bar">>,
        description |->
            "Charming boutique hotel in " \o location \o " perfect for romantic getaways. Intimate atmosphere, beautifully designed rooms, spa services, and fine dining. Highly rated by couples."],
       [hotel_id |-> query_hash \o "_business_1",
        name |-> "Business Center Hotel " \o location,
        city |-> location,
        country |-> get_country_from_location(location),
        price |-> 22000,
        rating |-> 44,
        review_score |-> 86,
        amenities |-> <<"WiFi", "Business Center", "Meeting Rooms", "Fitness Center", "Restaurant", "Bar", "Airport Shuttle", "Concierge", "Laundry Service">>,
        description |->
            "Modern business hotel in " \o location \o "'s financial district. Well-equipped meeting facilities, high-speed WiFi, fitness center, and convenient location for corporate travelers."],
       [hotel_id |-> query_hash \o "_family_1",
        name |-> "Family Resort " \o location,
        city |-> location,
        country |-> get_country_from_location(location),
        price |-> 16000,
        rating |-> 45,
        review_score |-> 87,
        amenities |-> <<"WiFi", "Pool", "Kids Club", "Playground", "Family Rooms", "Restaurant", "Bar", "Entertainment", "Game Room", "Babysitting">>,
        description |->
            "Family-friendly resort in " \o location \o " with extensive facilities for children. Large pool, kids club, playground, family rooms, and entertainment. Perfect for families with children."],
       [hotel_id |-> query_hash \o "_mid_1",
        name |-> "Comfort Inn " \o location,
        city |-> location,
        country |-> get_country_from_location(location),
        price |-> 12000,
        rating |-> 42,
        review_score |-> 83,
        amenities |-> <<"WiFi", "Pool", "Restaurant", "Bar", "Parking", "Fitness Center">>,
        description |->
            "Comfortable mid-range hotel in " \o location \o " with good value. Clean rooms, pool, restaurant, and convenient location. Great for travelers seeking comfort without luxury prices."],
       [hotel_id |-> query_hash \o "_spa_1",
        name |-> "Wellness Spa Hotel " \o location,
        city |-> location,
        country |-> get_country_from_location(location),
        price |-> 20000,
        rating |-> 46,
        review_score |-> 88,
        amenities |-> <<"WiFi", "Spa", "Wellness Center", "Massage", "Sauna", "Steam Room", "Yoga Classes", "Restaurant", "Bar", "Pool">>,
        description |->
            "Dedicated wellness and spa hotel in " \o location \o ". Extensive spa facilities, massage services, sauna, steam room, yoga classes, and healthy dining options. Perfect for relaxation and rejuvenation."],
       [hotel_id |-> query_hash \o "_budget_1",
        name |-> "Budget Inn " \o location,
        city |-> location,
        country |-> get_country_from_location(location),
        price |-> 6500,
        rating |-> 38,
        review_score |-> 76,
        amenities |-> <<"WiFi", "Parking", "24-Hour Reception">>,
        description |->
            "Affordable budget accommodation in " \o location \o ". Basic but clean rooms, free WiFi, parking available. Great value for money-conscious travelers."],
       [hotel_id |-> query_hash \o "_historic_1",
        name |-> "Historic Grand Hotel " \o location,
        city |-> location,
        country |-> get_country_from_location(location),
        price |-> 24000,
        rating |-> 47,
        review_score |-> 90,
        amenities |-> <<"WiFi", "Historic Building", "Restaurant", "Bar", "Concierge", "Room Service", "Fitness Center">>,
        description |->
            "Beautifully restored historic hotel in the center of " \o location \o ". Combines classic architecture with modern amenities. Elegant rooms, fine dining, and rich history."],
       [hotel_id |-> query_hash \o "_eco_1",
        name |-> "Eco-Friendly Hotel " \o location,
        city |-> location,
        country |-> get_country_from_location(location),
        price |-> 14000,
        rating |-> 44,
        review_score |-> 85,
        amenities |-> <<"WiFi", "Eco-Friendly", "Organic Restaurant", "Bike Rental", "Solar Power", "Recycling", "Garden">>,
        description |->
            "Environmentally conscious hotel in " \o location \o ". Sustainable practices, organic restaurant, bike rental, solar power. Perfect for eco-conscious travelers."]
    >>

\* list.sort(key=lambda x: x[0], reverse=True) on a list of <<score, item>>.  The
\* sort is stable: an element moves behind those of a higher score and behind the
\* earlier elements of its own score
SortDescending(scored) ==
    LET n == Len(scored)
        key == [k \in 1..n |-> scored[k][1]] \o <<>>
        place(i) == Cardinality({k \in 1..n : key[k] > key[i]})
                    + Cardinality({k \in 1..(i - 1) : key[k] = key[i]}) + 1
    IN  [p \in 1..n |-> scored[CHOOSE i \in 1..n : place(i) = p]]

RECURSIVE JoinWith(_, _)
\* sep.join(list)
JoinWith(list, sep) ==
    IF list = <<>> THEN ""
    ELSE Head(list) \o (IF Len(list) > 1 THEN sep ELSE "") \o JoinWith(Tail(list), sep)

\* the preference score of one synthetic hotel
MockPreferenceScore(hotel, pref_lower) ==
    LET amenities_str == JoinWith([i \in 1..Len(hotel.amenities) |->
                                      StrLower(hotel.amenities[i])], " ")
        name_desc == StrLower(hotel.name \o " " \o hotel.description)
        wants(kws) == \E i \in 1..Len(pref_lower) : \E kw \in kws : Contains(pref_lower[i], kw)
    IN    (IF wants({"luxury", "premium"})
              /\ (hotel.rating >= 45 \/ Contains(name_desc, "luxury")) THEN 10 ELSE 0)
        + (IF wants({"budget", "cheap", "affordable"})
              /\ hotel.price <= 10000 THEN 10 ELSE 0)
        + (IF wants({"romantic", "couple"})
              /\ (\/ Contains(name_desc, "romantic") \/ Contains(name_desc, "boutique")
                  \/ Contains(amenities_str, "spa")) THEN 10 ELSE 0)
        + (IF wants({"family", "kids"})
              /\ (Contains(name_desc, "family") \/ Contains(amenities_str, "kids"))
           THEN 10 ELSE 0)
        + (IF wants({"business", "corporate"})
              /\ (Contains(name_desc, "business") \/ Contains(amenities_str, "business"))
           THEN 10 ELSE 0)
        + (IF wants({"beach", "seaside"})
              /\ (Contains(name_desc, "beach") \/ Contains(amenities_str, "beach"))
           THEN 10 ELSE 0)
        + (IF wants({"pool"}) /\ Contains(amenities_str, "pool") THEN 10 ELSE 0)
        + (IF wants({"spa", "wellness"})
              /\ (Contains(amenities_str, "spa") \/ Contains(amenities_str, "wellness"))
           THEN 10 ELSE 0)

\* _filter_mock_hotels without the `or` alternative of the positive-score list
filter_mock_hotels_only_matching(all_hotels, parameters) ==
    LET under(h) == h.price <= parameters.budget_max
        over(h)  == h.price >= parameters.budget_min
        f1 == IF Truthy(parameters.budget_max) THEN SelectSeq(all_hotels, under)
              ELSE all_hotels
        f2 == IF Truthy(parameters.budget_min) THEN SelectSeq(f1, over) ELSE f1
        pref_lower == [i \in 1..Len(parameters.preferences) |->
                          StrLower(parameters.preferences[i])]
        scored_hotels == SortDescending([i \in 1..Len(f2) |->
                             <<MockPreferenceScore(f2[i], pref_lower), f2[i]>>])
        positive(x) == x[1] > 0
        matching == SelectSeq(scored_hotels, positive)
        filtered == IF parameters.preferences # <<>>
                    THEN [i \in 1..Len(matching) |-> matching[i][2]]
                    ELSE f2
    IN  IF Len(filtered) > 12 THEN SubSeq(filtered, 1, 12) ELSE filtered

filter_mock_hotels(all_hotels, parameters) ==
    LET under(h) == h.price <= parameters.budget_max
        over(h)  == h.price >= parameters.budget_min
        f1 == IF Truthy(parameters.budget_max) THEN SelectSeq(all_hotels, under)
              ELSE all_hotels
        f2 == IF Truthy(parameters.budget_min) THEN SelectSeq(f1, over) ELSE f1
        pref_lower == [i \in 1..Len(parameters.preferences) |->
                          StrLower(parameters.preferences[i])]
        scored_hotels == SortDescending([i \in 1..Len(f2) |->
                             <<MockPreferenceScore(f2[i], pref_lower), f2[i]>>])
        positive(x) == x[1] > 0
        matching == SelectSeq(scored_hotels, positive)
        chosen == IF matching # <<>> THEN matching ELSE scored_hotels
        filtered == IF parameters.preferences # <<>>
                    THEN [i \in 1..Len(chosen) |-> chosen[i][2]]
                    ELSE f2
    IN  IF Len(filtered) > 12 THEN SubSeq(filtered, 1, 12) ELSE filtered

\* the text the query fingerprint is computed from
QueryKey(parameters) ==
    (IF parameters.location \in {NoneStr, ""} THEN "Paris" ELSE parameters.location)
        \o "_" \o FloatStr(parameters.budget_min)
        \o "_" \o FloatStr(parameters.budget_max)
        \o "_" \o ListStr(parameters.preferences)

get_mock_hotels(parameters) ==
    LET location == IF parameters.location \in {NoneStr, ""} THEN "Paris"
                    ELSE parameters.location
        query_hash == Md5Hex8(QueryKey(parameters))
    IN  filter_mock_hotels(generate_mock_hotel_database(location, query_hash), parameters)

\* the worker processes that serve requests
Processes == {"worker 1", "worker 2"}

\* hash(text) of a str is keyed by a secret the interpreter draws when the process
\* starts.  The keyed hash is represented by a function of the secret and the text
\* whose values under two different secrets differ
StrHash(secret, text) == (secret * 7919 + Len(text) * 131 + 17) % 10000

\* location_hash = hash(location) % 10000
location_hash(secret, location) == StrHash(secret, location) % 10000

\* get_coord_offset(index, coord_type), in ten-thousandths of a degree
get_coord_offset(loc_hash, index, coord_type) ==
    LET multiplier == IF coord_type = "lat" THEN 100 ELSE 200
    IN  ((loc_hash + index * multiplier) % 200) - 100

\* the index each of the ten archetypes passes to get_coord_offset
CoordIndex == <<0, 1, 2, 3, 4, 3, 2, 7, 3, 2>>

\* the "latitude" and "longitude" offsets of the hotels _get_mock_hotels returns, in
\* the order it returns them
mock_coord_offsets(secret, parameters) ==
    LET location == IF parameters.location \in {NoneStr, ""} THEN "Paris"
                    ELSE parameters.location
        all_hotels == generate_mock_hotel_database(location, Md5Hex8(QueryKey(parameters)))
        returned == get_mock_hotels(parameters)
        archetype(h) == CHOOSE k \in 1..Len(all_hotels) : all_hotels[k] = h
        off(h, coord_type) == get_coord_offset(location_hash(secret, location),
                                              CoordIndex[archetype(h)], coord_type)
    IN  [i \in 1..Len(returned) |->
            [latitude |-> off(returned[i], "lat"), longitude |-> off(returned[i], "lng")]]

(***************************************************************************)
(* Hotel dictionaries.  A key that is absent holds Missing (strings) or    *)
(* None (numbers).  An amenity that is no str (a number or an object of    *)
(* the provider's JSON) is written "#" followed by its str().              *)
(***************************************************************************)
Missing == "<missing>"

\* dict.get(key, default) of a string field
StrGet(v, default) == IF v = Missing THEN default ELSE v

\* isinstance(a, str)
IsStr(a) == CharAt(a, 1) # "#"
\* str(a)
AmenityText(a) == IF IsStr(a) THEN a ELSE Slice(a, 2, Len(a))

\* str(hotel.get("hotel_id", "")): the default for an absent key, "None" for a key
\* that is present with the value None
HotelIdOf(hotel) ==
    IF hotel.hotel_id = Missing THEN ""
    ELSE IF hotel.hotel_id = NoneStr THEN "None"
    ELSE hotel.hotel_id

\* the truth value of hotel.get("hotel_id")
HasHotelId(hotel) == hotel.hotel_id \notin {Missing, NoneStr, ""}

(***************************************************************************)
(* ChatGPTService._fallback_filter_hotels                                  *)
(***************************************************************************)
\* budget_max of the ranker: its own pattern list, first match wins; the three
\* keyword patterns have no group and stand for a ceiling of 100
FallbackFilterBudgetMax(user_lower) ==
    LET keyword(kw) == IF Contains(user_lower, kw) THEN 100 ELSE None
        n == FirstMatch(<< SearchWordsNum(user_lower, <<"under">>),
                           SearchWordsNum(user_lower, <<"below">>),
                           SearchWordsNum(user_lower, <<"less", "than">>),
                           SearchWordsNum(user_lower, <<"up", "to">>),
                           SearchNumWord(user_lower, "€"),
                           SearchNumWord(user_lower, "eur"),
                           keyword("budget"),
                           keyword("cheap"),
                           keyword("affordable") >>)
    IN  IF n = None THEN None ELSE EurosToCents(n)

\* the preference table of the ranker, in dict order
preference_keywords ==
    << <<"luxury",   {"luxury", "premium", "5-star", "five star"}>>,
       <<"budget",   {"budget", "cheap", "affordable", "economy"}>>,
       <<"romantic", {"romantic", "honeymoon", "couple"}>>,
       <<"family",   {"family", "kids", "children", "family-friendly"}>>,
       <<"business", {"business", "corporate", "conference"}>>,
       <<"beach",    {"beach", "seaside", "ocean", "coast"}>>,
       <<"pool",     {"pool", "swimming"}>>,
       <<"spa",      {"spa", "wellness", "massage"}>> >>

\* hotel.get("rating") or hotel.get("review_score", 0)
BestRating(hotel) == IF Truthy(hotel.rating) THEN hotel.rating ELSE hotel.review_score

\* the score of one hotel, in hundredths of a point
FallbackScore(hotel, budget_max, detected_preferences) ==
    LET price == hotel.price
        name == StrLower(StrGet(hotel.name, ""))
        amenities_str == JoinWith([i \in 1..Len(hotel.amenities) |->
                                      StrLower(AmenityText(hotel.amenities[i]))], " ")
        description == StrLower(StrGet(hotel.description, ""))
        rating == BestRating(hotel)
        has(p) == \E i \in 1..Len(detected_preferences) : detected_preferences[i] = p
    IN    (IF Truthy(budget_max) /\ Truthy(price)
           THEN (IF price <= budget_max THEN 1000 ELSE -500) ELSE 0)
        + (IF has("luxury") /\ Truthy(rating) /\ rating >= 45 THEN 500 ELSE 0)
        + (IF has("luxury") /\ \E kw \in {"luxury", "resort", "grand"} : Contains(name, kw)
           THEN 300 ELSE 0)
        + (IF has("budget") /\ Truthy(price) /\ price <= 10000 THEN 500 ELSE 0)
        + (IF has("budget") /\ \E kw \in {"budget", "inn", "hostel"} : Contains(name, kw)
           THEN 300 ELSE 0)
        + (IF has("romantic") /\ \E kw \in {"spa", "romantic", "boutique"} :
                Contains(amenities_str, kw) \/ Contains(description, kw)
           THEN 500 ELSE 0)
        + (IF has("family") /\ \E kw \in {"pool", "kids", "family", "playground"} :
                Contains(amenities_str, kw) \/ Contains(description, kw)
           THEN 500 ELSE 0)
        + (IF has("beach") /\ \E kw \in {"beach", "ocean", "seaside", "coast"} :
                Contains(amenities_str, kw) \/ Contains(description, kw) \/ Contains(name, kw)
           THEN 500 ELSE 0)
        + (IF has("pool") /\ Contains(amenities_str, "pool") THEN 500 ELSE 0)
        + (IF has("spa") /\ Contains(amenities_str, "spa") THEN 500 ELSE 0)
        + (IF Truthy(rating) THEN 15 * rating ELSE 0)
        + 100

\* the ranking the scoring loop and the sort produce
FallbackRanking(demand, hotel_list) ==
    LET user_lower == StrLower(demand)
        budget_max == FallbackFilterBudgetMax(user_lower)
        detected_preferences == DetectTags(user_lower, preference_keywords)
        with_id(h) == HotelIdOf(h) # ""
        identified == SelectSeq(hotel_list, with_id)
        scored_hotels == SortDescending([i \in 1..Len(identified) |->
            <<FallbackScore(identified[i], budget_max, detected_preferences),
              HotelIdOf(identified[i])>>])
    IN  [i \in 1..Len(scored_hotels) |-> scored_hotels[i][2]]

\* hotel.get("city", "").lower() and its three siblings raise AttributeError on a
\* field that is present with the value None
FallbackRaises(hotel_list) ==
    \E i \in 1..Len(hotel_list) :
        /\ HotelIdOf(hotel_list[i]) # ""
        /\ \/ hotel_list[i].city = NoneStr
           \/ hotel_list[i].country = NoneStr
           \/ hotel_list[i].name = NoneStr
           \/ hotel_list[i].description = NoneStr

fallback_filter_hotels(demand, hotel_list) ==
    IF FallbackRaises(hotel_list)
    THEN Raise("AttributeError", "'NoneType' object has no attribute 'lower'")
    ELSE Return(FallbackRanking(demand, hotel_list))

(***************************************************************************)
(* ChatGPTService.filter_hotels_by_demand.  svc is what the inference      *)
(* service does with the call: Return([form, ids]) or Raise(...).          *)
(***************************************************************************)
\* ", ".join(amenities[:5]) raises TypeError on an item that is no str, and
\* hotel.get("name", "Unknown")[:50] on a name that is None
SummaryRaises(hotel_list) ==
    \E i \in 1..Len(hotel_list) :
        /\ HotelIdOf(hotel_list[i]) # ""
        /\ \/ \E j \in 1..Len(hotel_list[i].amenities) :
                 j <= 5 /\ ~IsStr(hotel_list[i].amenities[j])
           \/ hotel_list[i].name = NoneStr

filter_hotels_by_demand(has_client, demand, hotel_list, svc) ==
    IF hotel_list = <<>> THEN Return(<<>>)
    ELSE IF SummaryRaises(hotel_list)
    THEN \* the summaries are built before the try statement
         Raise("TypeError", "sequence item: expected str instance")
    ELSE IF ~has_client THEN fallback_filter_hotels(demand, hotel_list)
    ELSE IF svc.ok /\ svc.value.form \in {"json", "fenced"} THEN Return(svc.value.ids)
    ELSE \* every except clause ends in the fallback
         fallback_filter_hotels(demand, hotel_list)

(***************************************************************************)
(* BookingService.search_hotels.  live is what the inventory provider does *)
(* with the call: Return(list of hotels) or Raise(...).                    *)
(***************************************************************************)
\* search_hotels answering a failed live call with an empty list
search_hotels_empty_on_error(api_key, parameters, live) ==
    IF ~api_key THEN get_mock_hotels(parameters)
    ELSE IF live.ok THEN live.value
    ELSE <<>>

search_hotels(api_key, parameters, live) ==
    IF ~api_key THEN get_mock_hotels(parameters)
    ELSE IF live.ok THEN live.value
    ELSE get_mock_hotels(parameters)

(***************************************************************************)
(* app/crud/hotel.py.  The table is a set of rows; hotel_id is its primary *)
(* key.                                                                    *)
(***************************************************************************)
Row(hotel_id, booking_data) == [hotel_id |-> hotel_id, booking_data |-> booking_data]

\* db.query(Hotel).filter(Hotel.hotel_id == hotel_id): the matching rows
RowsOf(db, hotel_id) == {r \in db : r.hotel_id = hotel_id}

\* get_hotel: .first() of the query, NoRow when there is none
NoRow == Row("", [hotel_id |-> ""])
get_hotel(db, hotel_id) ==
    IF RowsOf(db, hotel_id) = {} THEN NoRow ELSE CHOOSE r \in RowsOf(db, hotel_id) : TRUE

\* create_or_update_hotel without the look-up of the existing record
create_hotel_without_lookup(db, hotel_id, booking_data) ==
    db \cup {Row(hotel_id, booking_data)}

\* create_or_update_hotel when its commit succeeds: the table afterwards
create_or_update_hotel(db, hotel_id, booking_data) ==
    LET db_hotel == get_hotel(db, hotel_id)
    IN  IF db_hotel # NoRow
        THEN (db \ {db_hotel}) \cup {Row(hotel_id, booking_data)}
        ELSE db \cup {Row(hotel_id, booking_data)}

RECURSIVE bulk_from(_, _, _, _)
\* the loop of bulk_create_or_update_hotels from position k on; the commit of the
\* candidate at position fail_at raises (0: no commit raises)
bulk_from(db, hotels_data, k, fail_at) ==
    IF k > Len(hotels_data) THEN [db |-> db, raised |-> FALSE]
    ELSE IF HotelIdOf(hotels_data[k]) = "" THEN bulk_from(db, hotels_data, k + 1, fail_at)
    ELSE IF k = fail_at THEN [db |-> db, raised |-> TRUE]
    ELSE bulk_from(create_or_update_hotel(db, HotelIdOf(hotels_data[k]), hotels_data[k]),
                   hotels_data, k + 1, fail_at)

\* the bulk upsert going on after a failed commit: the candidates behind the
\* failing one are written too, and the failure is raised at the end
bulk_continuing_after_failure(db, hotels_data, fail_at) ==
    IF bulk_from(db, hotels_data, 1, fail_at).raised
    THEN [db |-> bulk_from(bulk_from(db, hotels_data, 1, fail_at).db, hotels_data,
                           fail_at + 1, 0).db,
          raised |-> TRUE]
    ELSE bulk_from(db, hotels_data, 1, fail_at)

bulk_create_or_update_hotels(db, hotels_data, fail_at) ==
    bulk_from(db, hotels_data, 1, fail_at)

(***************************************************************************)
(* Step 4 of recommend_hotels                                              *)
(***************************************************************************)
\* hotels_by_id: the candidates that have an identifier, the last one of an id wins
HotelsById(hotel_list) ==
    LET idx == {i \in 1..Len(hotel_list) : HasHotelId(hotel_list[i])}
    IN  [id \in {HotelIdOf(hotel_list[i]) : i \in idx} |->
            hotel_list[CHOOSE i \in idx :
                          /\ HotelIdOf(hotel_list[i]) = id
                          /\ \A j \in idx : HotelIdOf(hotel_list[j]) = id => j <= i]]

HotelInfo(hotel_data) ==
    [hotel_id |-> HotelIdOf(hotel_data),
     name |-> hotel_data.name,
     price |-> hotel_data.price,
     rating |-> hotel_data.rating,
     review_score |-> hotel_data.review_score,
     raw_data |-> hotel_data]

RECURSIVE hydrate_store_first(_, _, _, _)
\* the loop with the two sources swapped: the table is asked first
hydrate_store_first(ids, hotel_list, db, failing) ==
    IF ids = <<>> THEN [matched_hotels |-> <<>>, lookups |-> <<>>]
    ELSE LET hotel_id == Head(ids)
             hotels_by_id == HotelsById(hotel_list)
             stored == hotel_id \notin failing /\ get_hotel(db, hotel_id) # NoRow
             hotel_data ==
                 IF stored THEN <<get_hotel(db, hotel_id).booking_data>>
                 ELSE IF hotel_id \in DOMAIN hotels_by_id THEN <<hotels_by_id[hotel_id]>>
                 ELSE <<>>
             rest == hydrate_store_first(Tail(ids), hotel_list, db, failing)
         IN  [matched_hotels |->
                 (IF hotel_data # <<>> THEN <<HotelInfo(hotel_data[1])>> ELSE <<>>)
                     \o rest.matched_hotels,
              lookups |-> <<hotel_id>> \o rest.lookups]

RECURSIVE hydrate_keeps_unresolved(_, _, _, _)
\* the loop without the test "if hotel_data": an unresolved identifier yields an
\* entry built from an empty payload
hydrate_keeps_unresolved(ids, hotel_list, db, failing) ==
    IF ids = <<>> THEN [matched_hotels |-> <<>>, lookups |-> <<>>]
    ELSE LET hotel_id == Head(ids)
             hotels_by_id == HotelsById(hotel_list)
             fresh == hotel_id \in DOMAIN hotels_by_id
             empty == [hotel_id |-> "", name |-> NoneStr, price |-> None, rating |-> None,
                       review_score |-> None, raw_data |-> [hotel_id |-> ""]]
             hotel_info ==
                 IF fresh THEN HotelInfo(hotels_by_id[hotel_id])
                 ELSE IF hotel_id \notin failing /\ get_hotel(db, hotel_id) # NoRow
                 THEN HotelInfo(get_hotel(db, hotel_id).booking_data)
                 ELSE empty
             rest == hydrate_keeps_unresolved(Tail(ids), hotel_list, db, failing)
         IN  [matched_hotels |-> <<hotel_info>> \o rest.matched_hotels,
              lookups |-> (IF fresh THEN <<>> ELSE <<hotel_id>>) \o rest.lookups]

RECURSIVE hydrate(_, _, _, _)
\* the loop over matched_hotel_ids: the HotelInfo list it builds and the get_hotel
\* calls it makes, in order; the calls for the identifiers in failing raise
hydrate(ids, hotel_list, db, failing) ==
    IF ids = <<>> THEN [matched_hotels |-> <<>>, lookups |-> <<>>]
    ELSE LET hotel_id == Head(ids)
             hotels_by_id == HotelsById(hotel_list)
             fresh == hotel_id \in DOMAIN hotels_by_id
             hotel_data ==
                 IF fresh THEN <<hotels_by_id[hotel_id]>>
                 ELSE IF hotel_id \in failing THEN <<>>
                 ELSE IF get_hotel(db, hotel_id) # NoRow
                 THEN <<get_hotel(db, hotel_id).booking_data>>
                 ELSE <<>>
             rest == hydrate(Tail(ids), hotel_list, db, failing)
         IN  [matched_hotels |->
                 (IF hotel_data # <<>> THEN <<HotelInfo(hotel_data[1])>> ELSE <<>>)
                     \o rest.matched_hotels,
              lookups |-> (IF fresh THEN <<>> ELSE <<hotel_id>>) \o rest.lookups]

(***************************************************************************)
(* Responses of the endpoint                                               *)
(***************************************************************************)
RecommendationResponse(demand, parameters, matched, total, message) ==
    [kind |-> "RecommendationResponse", user_demand |-> demand,
     extracted_parameters |-> parameters, matched_hotels |-> matched,
     total_results |-> total, message |-> message]

\* the two except clauses of recommend_hotels
HTTPException(exc) ==
    [kind |-> "HTTPException", status_code |-> 500,
     detail |-> (IF exc.type \in ValueErrorTypes THEN "Service configuration error: "
                 ELSE "Error processing recommendation: ") \o exc.msg]

NoResponse == [kind |-> "none"]

(***************************************************************************)
(* The environment: demands, replies of the inference service, replies of  *)
(* the inventory provider                                                  *)
(***************************************************************************)
\* number of requests served in one behaviour
MaxRequests == 2
\* highest batch position at which a commit of the bulk upsert is made to fail
MaxFailAt == 2

Demands ==
    { "romantic boutique hotel in Paris under 200 euros",
      "Business hotel in Rome under 150" }

\* parameters the inference service extracts
ParamsPool ==
    { ExtractionResponse("Rome", "2026-12-01", "2026-12-03", None, 5000, None, None, None,
                         NoneList),
      ExtractionResponse(NoneStr, NoneStr, NoneStr, 15000, None, 2, 0, 1, <<"Spa">>) }

ExtractService ==
    {Return([form |-> f, params |-> p]) : f \in ContentForms, p \in ParamsPool}
        \cup ServiceErrors

LiveHotel(id, name, price, rating, review_score, amenities, description) ==
    [hotel_id |-> id, name |-> name, city |-> "Rome", country |-> "Italy",
     price |-> price, rating |-> rating, review_score |-> review_score,
     amenities |-> amenities, description |-> description]

Alpha    == LiveHotel("h1", "Hotel Alpha", 12000, 45, 88, <<"WiFi", "Pool">>,
                      "Quiet hotel near the station")
AlphaNew == LiveHotel("h1", "Hotel Alpha", 9900, 45, 88, <<"WiFi", "Pool">>,
                      "Quiet hotel near the station")
Beta     == LiveHotel("h2", "Business Inn", 8000, None, 79,
                      <<"WiFi", "Business Center">>, Missing)
NoId     == LiveHotel(Missing, "Nameless Lodge", 7000, 41, 80, <<"WiFi">>, "No identifier")
Gamma    == LiveHotel("h3", "Hotel Gamma", 15000, 40, 81, <<"WiFi", "#{'code': 7}">>,
                      "Amenities given as objects")
Delta    == LiveHotel("h4", "Hotel Delta", 11000, 42, 84, <<"WiFi">>, NoneStr)
NullId   == LiveHotel(NoneStr, "Unlisted Rooms", 6000, 39, 77, <<"WiFi">>, "Identifier null")

LiveLists ==
    { <<>>, <<Alpha, Beta>>, <<AlphaNew, NoId, NullId>>, <<Beta, Gamma>>, <<Delta>> }

LiveService ==
    {Return(l) : l \in LiveLists}
        \cup {Raise("HTTPError", "503 Service Unavailable"), Raise("Exception", "unexpected")}

\* identifier lists the inference service answers the ranking call with
MatchedIdReplies(hotel_list) ==
    LET with_id(h) == HotelIdOf(h) # ""
        identified == SelectSeq(hotel_list, with_id)
        ids == [i \in 1..Len(identified) |-> HotelIdOf(identified[i])]
    IN  {<<>>, <<"h1">>, ids}
            \cup (IF ids = <<>> THEN {}
                  ELSE { <<ids[Len(ids)], ids[1]>>, <<ids[1], ids[1]>>,
                         <<"ghost", "h2", "h1", ids[1]>> })

\* one failure of each kind the except clauses of filter_hotels_by_demand tell apart
RankErrors ==
    { Raise("RateLimitError", "Error code: 429 - You exceeded your current quota"),
      Raise("APIError", "Error code: 400 - INSUFFICIENT_QUOTA"),
      Raise("APIError", "Connection error."),
      Raise("Exception", "unexpected") }

RankService(hotel_list) ==
    {Return([form |-> "json", ids |-> l]) : l \in MatchedIdReplies(hotel_list)}
        \cup {Return([form |-> "fenced", ids |-> <<"ghost", "h2">>])}
        \cup {Return([form |-> f, ids |-> <<>>]) : f \in {"garbage", "fenced_garbage"}}
        \cup RankErrors

(***************************************************************************)
(* recommend_hotels, one action per stage                                  *)
(***************************************************************************)
\* no call of the inference service is in flight
NoCall == Return([form |-> "<no call>"])

\* extract_search_parameters reaches the inference service: self.client is set
ExtractCalls(has_client) == has_client

\* filter_hotels_by_demand reaches the inference service
RankCalls(has_client, hotel_list) ==
    hotel_list # <<>> /\ ~SummaryRaises(hotel_list) /\ has_client

Init ==
    /\ client \in BOOLEAN
    /\ booking_api_key \in BOOLEAN
    /\ store = {}
    /\ requests = 0
    /\ stage = "IDLE"
    /\ user_demand = ""
    /\ search_params = ToSearchParameters(
           ExtractionResponse(NoneStr, NoneStr, NoneStr, None, None, 1, 0, 1, NoneList))
    /\ hotels = <<>>
    /\ persist = "none"
    /\ matched_hotel_ids = <<>>
    /\ matched_hotels = <<>>
    /\ response = NoResponse
    /\ log = <<>>
    /\ reply = NoCall
    /\ lookup_failures = {}
    /\ calls = <<>>
    /\ sessions = <<>>
    /\ hash_secret = [w \in Processes |-> 0]

\* a request arrives
Start ==
    /\ stage \in {"IDLE", "DONE", "ERROR"}
    /\ requests < MaxRequests
    /\ \E d \in Demands : user_demand' = d
    /\ requests' = requests + 1
    /\ stage' = "START"
    /\ search_params' = ToSearchParameters(
           ExtractionResponse(NoneStr, NoneStr, NoneStr, None, None, 1, 0, 1, NoneList))
    /\ hotels' = <<>>
    /\ persist' = "none"
    /\ matched_hotel_ids' = <<>>
    /\ matched_hotels' = <<>>
    /\ response' = NoResponse
    /\ log' = <<>>
    /\ reply' = NoCall
    /\ lookup_failures' = {}
    /\ UNCHANGED <<client, booking_api_key, store>>
    /\ UNCHANGED <<calls, sessions, hash_secret>>

\* step 1
Extract ==
    /\ stage = "START"
    /\ \E svc \in (IF ExtractCalls(client) THEN ExtractService ELSE {NoCall}) :
          LET r == extract_search_parameters(client, user_demand, svc)
          IN  /\ reply' = svc
              /\ IF r.ok
                 THEN /\ search_params' = ToSearchParameters(r.value)
                      /\ stage' = "EXTRACT"
                      /\ response' = response
                 ELSE /\ search_params' = search_params
                      /\ stage' = "ERROR"
                      /\ response' = HTTPException(r)
    /\ log' = Append(log, "EXTRACT")
    /\ UNCHANGED <<client, booking_api_key, store, requests, user_demand, hotels,
                   persist, matched_hotel_ids, matched_hotels, lookup_failures>>
    /\ UNCHANGED <<calls, sessions, hash_secret>>

\* step 2 without the early return
SearchWithoutEarlyReturn ==
    /\ stage = "EXTRACT"
    /\ \E live \in LiveService :
          hotels' = search_hotels(booking_api_key, search_params, live)
    /\ stage' = "SEARCH"
    /\ log' = Append(log, "SEARCH")
    /\ reply' = NoCall
    /\ UNCHANGED <<client, booking_api_key, store, requests, user_demand, search_params,
                   persist, matched_hotel_ids, matched_hotels, response, lookup_failures>>
    /\ UNCHANGED <<calls, sessions, hash_secret>>

\* step 2, saving the candidates as soon as they are found
SearchSavingCandidates ==
    /\ stage = "EXTRACT"
    /\ \E live \in LiveService :
          /\ hotels' = search_hotels(booking_api_key, search_params, live)
          /\ store' = bulk_create_or_update_hotels(store, hotels', 0).db
          /\ IF hotels' = <<>>
             THEN /\ stage' = "DONE"
                  /\ response' = RecommendationResponse(user_demand, search_params, <<>>, 0,
                                     "No hotels found matching your criteria.")
             ELSE /\ stage' = "SEARCH"
                  /\ response' = response
    /\ log' = Append(log, "SEARCH")
    /\ reply' = NoCall
    /\ UNCHANGED <<client, booking_api_key, requests, user_demand, search_params,
                   persist, matched_hotel_ids, matched_hotels, lookup_failures>>
    /\ UNCHANGED <<calls, sessions, hash_secret>>

\* step 2, with the early return on an empty candidate list
Search ==
    /\ stage = "EXTRACT"
    /\ \E live \in LiveService :
          /\ hotels' = search_hotels(booking_api_key, search_params, live)
          /\ IF hotels' = <<>>
             THEN /\ stage' = "DONE"
                  /\ response' = RecommendationResponse(user_demand, search_params, <<>>, 0,
                                     "No hotels found matching your criteria.")
             ELSE /\ stage' = "SEARCH"
                  /\ response' = response
    /\ log' = Append(log, "SEARCH")
    /\ reply' = NoCall
    /\ UNCHANGED <<client, booking_api_key, store, requests, user_demand, search_params,
                   persist, matched_hotel_ids, matched_hotels, lookup_failures>>
    /\ UNCHANGED <<calls, sessions, hash_secret>>

\* step 2.5: the bulk upsert inside its own try statement
Persist ==
    /\ stage = "SEARCH"
    /\ \E fail_at \in 0..(IF Len(hotels) < MaxFailAt THEN Len(hotels) ELSE MaxFailAt) :
          LET r == bulk_create_or_update_hotels(store, hotels, fail_at)
          IN  /\ store' = r.db
              /\ persist' = IF r.raised THEN "failed" ELSE "ok"
    /\ stage' = "PERSIST"
    /\ log' = Append(log, "PERSIST")
    /\ UNCHANGED <<client, booking_api_key, requests, user_demand, search_params, hotels,
                   matched_hotel_ids, matched_hotels, response, reply, lookup_failures>>
    /\ UNCHANGED <<calls, sessions, hash_secret>>

\* step 3 started without waiting for the end of step 2.5
RankBeforePersistEnds ==
    /\ stage \in {"SEARCH", "PERSIST"}
    /\ \E svc \in (IF RankCalls(client, hotels) THEN RankService(hotels) ELSE {NoCall}) :
          LET r == filter_hotels_by_demand(client, user_demand, hotels, svc)
          IN  /\ reply' = svc
              /\ IF r.ok
                 THEN /\ matched_hotel_ids' = r.value
                      /\ stage' = "RANK"
                      /\ response' = response
                 ELSE /\ matched_hotel_ids' = matched_hotel_ids
                      /\ stage' = "ERROR"
                      /\ response' = HTTPException(r)
    /\ log' = Append(log, "RANK")
    /\ UNCHANGED <<client, booking_api_key, store, requests, user_demand, search_params,
                   hotels, persist, matched_hotels, lookup_failures>>
    /\ UNCHANGED <<calls, sessions, hash_secret>>

\* step 3
Rank ==
    /\ stage = "PERSIST"
    /\ \E svc \in (IF RankCalls(client, hotels) THEN RankService(hotels) ELSE {NoCall}) :
          LET r == filter_hotels_by_demand(client, user_demand, hotels, svc)
          IN  /\ reply' = svc
              /\ IF r.ok
                 THEN /\ matched_hotel_ids' = r.value
                      /\ stage' = "RANK"
                      /\ response' = response
                 ELSE /\ matched_hotel_ids' = matched_hotel_ids
                      /\ stage' = "ERROR"
                      /\ response' = HTTPException(r)
    /\ log' = Append(log, "RANK")
    /\ UNCHANGED <<client, booking_api_key, store, requests, user_demand, search_params,
                   hotels, persist, matched_hotels, lookup_failures>>
    /\ UNCHANGED <<calls, sessions, hash_secret>>

\* step 4: the loop over matched_hotel_ids
Hydrate ==
    /\ stage = "RANK"
    /\ \E failing \in SUBSET ({matched_hotel_ids[i] : i \in 1..Len(matched_hotel_ids)}
                                \ DOMAIN HotelsById(hotels)) :
          LET r == hydrate(matched_hotel_ids, hotels, store, failing)
          IN  /\ matched_hotels' = r.matched_hotels
              /\ lookup_failures' = failing
              /\ log' = Append(log, "HYDRATE")
                        \o [i \in 1..Len(r.lookups) |-> "get_hotel:" \o r.lookups[i]]
    /\ stage' = "HYDRATE"
    /\ reply' = NoCall
    /\ UNCHANGED <<client, booking_api_key, store, requests, user_demand, search_params,
                   hotels, persist, matched_hotel_ids, response>>
    /\ UNCHANGED <<calls, sessions, hash_secret>>

\* the final return statement, counting the ranked identifiers instead
RespondCountingRanked ==
    /\ stage = "HYDRATE"
    /\ response' = RecommendationResponse(user_demand, search_params, matched_hotels,
                       Len(matched_hotel_ids),
                       "Found " \o IntStr(Len(matched_hotels))
                           \o " hotels matching your preferences.")
    /\ stage' = "DONE"
    /\ UNCHANGED <<client, booking_api_key, store, requests, user_demand, search_params,
                   hotels, persist, matched_hotel_ids, matched_hotels, log, reply,
                   lookup_failures>>
    /\ UNCHANGED <<calls, sessions, hash_secret>>

\* the final return statement
Respond ==
    /\ stage = "HYDRATE"
    /\ response' = RecommendationResponse(user_demand, search_params, matched_hotels,
                       Len(matched_hotels),
                       "Found " \o IntStr(Len(matched_hotels))
                           \o " hotels matching your preferences.")
    /\ stage' = "DONE"
    /\ UNCHANGED <<client, booking_api_key, store, requests, user_demand, search_params,
                   hotels, persist, matched_hotel_ids, matched_hotels, log, reply,
                   lookup_failures>>
    /\ UNCHANGED <<calls, sessions, hash_secret>>

Next == Start \/ Extract \/ Search \/ Persist \/ Rank \/ Hydrate \/ Respond

Spec == Init /\ [][Next]_vars

(***************************************************************************)
(* Vocabulary of the properties                                            *)
(***************************************************************************)
StageOrder == <<"EXTRACT", "SEARCH", "PERSIST", "RANK", "HYDRATE">>

IsStageName(e) == \E i \in 1..Len(StageOrder) : StageOrder[i] = e
IsLookup(e) == Slice(e, 1, 10) = "get_hotel:"
LookupId(e) == Slice(e, 11, Len(e))

\* the stages the running request has gone through, in order
StagesRun == SelectSeq(log, IsStageName)
\* the stage that ran last
LastStage == IF StagesRun = <<>> THEN "" ELSE StagesRun[Len(StagesRun)]
Ran(name) == \E i \in 1..Len(log) : log[i] = name

\* identifiers of the current request's candidates, of the table's rows
FreshIds == {HotelIdOf(hotels[i]) : i \in {j \in 1..Len(hotels) : HasHotelId(hotels[j])}}
StoredIds == {r.hotel_id : r \in store}
RankedIds == {matched_hotel_ids[i] : i \in 1..Len(matched_hotel_ids)}
ResultIds == [k \in 1..Len(matched_hotels) |-> matched_hotels[k].hotel_id]

\* the reply in flight is a failure of the inference service
ServiceFailed == ~reply.ok /\ reply.type \in APIErrorTypes

\* a capacity / throttle marker, whatever the case of its letters
CarriesMarker(msg) ==
    \/ Contains(StrLower(msg), "insufficient_quota")
    \/ Contains(StrLower(msg), "rate_limit")
    \/ Contains(msg, "429")

(***************************************************************************)
(* C1: the stages of a request run in the order EXTRACT, SEARCH, PERSIST,  *)
(* RANK, HYDRATE, each at most once; RANK runs only after the PERSIST      *)
(* attempt has ended, with either outcome; a request that is DONE went     *)
(* through all of them, or stopped after SEARCH.                           *)
(***************************************************************************)
C1_StageOrder ==
    /\ Len(StagesRun) <= Len(StageOrder)
    /\ StagesRun = SubSeq(StageOrder, 1, Len(StagesRun))
    /\ Ran("RANK") => persist \in {"ok", "failed"}
    /\ ~Ran("PERSIST") => persist = "none"
    /\ stage = "DONE" => StagesRun \in {StageOrder, <<"EXTRACT", "SEARCH">>}

C1_Witness ==
    stage = "DONE" /\ StagesRun = StageOrder /\ persist = "failed" /\ matched_hotels # <<>>

(***************************************************************************)
(* C2: a hotel of the final result whose identifier belongs to a fresh     *)
(* candidate carries that candidate's payload, whatever the table holds    *)
(* for the identifier and whatever the outcome of PERSIST.                 *)
(***************************************************************************)
C2_FreshPayloadWins ==
    stage \in {"HYDRATE", "DONE"} =>
        \A k \in 1..Len(matched_hotels) : \A i \in 1..Len(hotels) :
            (/\ HasHotelId(hotels[i])
             /\ HotelIdOf(hotels[i]) = matched_hotels[k].hotel_id
             /\ \A j \in (i + 1)..Len(hotels) : HotelIdOf(hotels[j]) # HotelIdOf(hotels[i]))
                => /\ matched_hotels[k].raw_data = hotels[i]
                   /\ matched_hotels[k].price = hotels[i].price

C2_Witness ==
    /\ stage = "DONE"
    /\ persist = "failed"
    /\ \E k \in 1..Len(matched_hotels) : \E r \in store :
          /\ r.hotel_id = matched_hotels[k].hotel_id
          /\ r.hotel_id \in FreshIds
          /\ r.booking_data # matched_hotels[k].raw_data

(***************************************************************************)
(* C3: step 4 asks the table only for identifiers that no fresh candidate  *)
(* has; an identifier found in neither source, or whose lookup raised, is  *)
(* left out, the request goes on, and the hotels of the result follow the  *)
(* order of the ranked identifiers.                                        *)
(***************************************************************************)
C3_HydrateLookups ==
    /\ \A i \in 1..Len(log) : IsLookup(log[i]) => LookupId(log[i]) \notin FreshIds
    /\ stage \in {"HYDRATE", "DONE"} /\ Ran("HYDRATE") =>
          LET resolvable(id) ==
                  \/ id \in FreshIds
                  \/ id \in StoredIds /\ id \notin lookup_failures
          IN  ResultIds = SelectSeq(matched_hotel_ids, resolvable)
    /\ LastStage = "HYDRATE" => stage \in {"HYDRATE", "DONE"}

C3_Witness ==
    /\ stage = "DONE"
    /\ "ghost" \in RankedIds
    /\ lookup_failures \cap StoredIds # {}
    /\ Len(matched_hotels) = 2
    /\ matched_hotels[1].hotel_id \notin FreshIds
    /\ matched_hotels[2].hotel_id \in FreshIds

(***************************************************************************)
(* C4: a search that returns no candidate ends the request at once: the    *)
(* response has no hotel, total_results 0 and the "No hotels found"        *)
(* message, and neither the ranker nor a table lookup has run.             *)
(***************************************************************************)
C4_EmptySearchShortCircuit ==
    /\ stage \in {"SEARCH", "PERSIST", "RANK", "HYDRATE"} => hotels # <<>>
    /\ (Ran("SEARCH") /\ hotels = <<>>) =>
          /\ stage = "DONE"
          /\ log = <<"EXTRACT", "SEARCH">>
          /\ response.kind = "RecommendationResponse"
          /\ response.matched_hotels = <<>>
          /\ response.total_results = 0
          /\ Contains(response.message, "No hotels found")
          /\ matched_hotel_ids = <<>>

C4_Witness ==
    stage = "DONE" /\ Ran("SEARCH") /\ hotels = <<>> /\ store # {}

(***************************************************************************)
(* C5: after a failed PERSIST attempt the request is never aborted: it     *)
(* goes through RANK and ends DONE, and every hotel of its result is one   *)
(* of the in-memory candidates.                                            *)
(***************************************************************************)
C5_PersistFailureIsNotFatal ==
    persist = "failed" =>
        /\ stage # "ERROR"
        /\ stage = "DONE" =>
              \A k \in 1..Len(matched_hotels) :
                  \E i \in 1..Len(hotels) : matched_hotels[k].raw_data = hotels[i]

(***************************************************************************)
(* C6: without a credential the extraction step returns the parameters of  *)
(* the rule-based fallback and the request goes on to SEARCH.              *)
(***************************************************************************)
C6_NoCredentialUsesFallback ==
    (~client /\ Ran("EXTRACT")) =>
        /\ stage # "ERROR"
        /\ LastStage = "EXTRACT" =>
              search_params = ToSearchParameters(fallback_extract_parameters(user_demand))

(***************************************************************************)
(* C7: when the extraction call fails with a service error whose message   *)
(* carries a capacity / throttle marker, in any letter case, the step      *)
(* succeeds with exactly the parameters of the rule-based fallback for     *)
(* the same demand.                                                        *)
(***************************************************************************)
C7_MarkedErrorFallsBack ==
    (LastStage = "EXTRACT" /\ ServiceFailed /\ CarriesMarker(reply.msg)) =>
        /\ stage = "EXTRACT"
        /\ search_params = ToSearchParameters(fallback_extract_parameters(user_demand))

C7_Witness ==
    /\ LastStage = "EXTRACT"
    /\ stage = "EXTRACT"
    /\ ~reply.ok
    /\ reply.type = "APIError"
    /\ reply.msg = "Error code: 400 - INSUFFICIENT_QUOTA"
    /\ search_params.location = "Paris"
    /\ search_params.budget_max = 20000

(***************************************************************************)
(* C8: a request never ends in an error on a failure of the inference      *)
(* service (time-out, connection or HTTP error, throttling or quota        *)
(* signal), at EXTRACT as at RANK.                                         *)
(***************************************************************************)
C8_TransientFailuresRecovered ==
    ServiceFailed => stage # "ERROR"

(***************************************************************************)
(* C9: the ranking step never ends the request in an error, and whenever   *)
(* the primary attempt is not made or does not give a parsable answer the  *)
(* ranked identifiers are the fallback ranking of the candidates.          *)
(***************************************************************************)
C9_RankNeverFails ==
    LastStage = "RANK" =>
        /\ stage = "RANK"
        /\ (reply = NoCall \/ ~reply.ok \/ reply.value.form \notin {"json", "fenced"})
              => matched_hotel_ids = FallbackRanking(user_demand, hotels)

(***************************************************************************)
(* C10: the ranked identifiers are identifiers of the candidates given to  *)
(* the ranker, and so are the hotels of the final result.                  *)
(***************************************************************************)
C10_RankedIdsAreCandidates ==
    /\ stage \in {"RANK", "HYDRATE", "DONE"} => RankedIds \subseteq FreshIds
    /\ \A k \in 1..Len(matched_hotels) : matched_hotels[k].hotel_id \in FreshIds

(***************************************************************************)
(* C11: the fallback ranker returns one identifier for every candidate     *)
(* that has a non-empty identifier, in descending order of score, and      *)
(* candidates of equal score keep their input order.                       *)
(***************************************************************************)
\* step 3 went through _fallback_filter_hotels
FallbackUsed ==
    /\ LastStage = "RANK"
    /\ ~SummaryRaises(hotels)
    /\ (reply = NoCall \/ ~reply.ok \/ reply.value.form \notin {"json", "fenced"})

C11_FallbackOnlyOrders ==
    FallbackUsed =>
        /\ stage = "RANK"
        /\ LET with_id(h) == HotelIdOf(h) # ""
               identified == SelectSeq(hotels, with_id)
               user_lower == StrLower(user_demand)
               score == [i \in 1..Len(identified) |->
                            FallbackScore(identified[i],
                                          FallbackFilterBudgetMax(user_lower),
                                          DetectTags(user_lower, preference_keywords))]
               before(j, i) == score[j] > score[i] \/ (score[j] = score[i] /\ j < i)
               rank(i) == 1 + Cardinality({j \in 1..Len(identified) : before(j, i)})
           IN  /\ Len(matched_hotel_ids) = Len(identified)
               /\ \A i \in 1..Len(identified) :
                     matched_hotel_ids[rank(i)] = HotelIdOf(identified[i])

(***************************************************************************)
(* C12: in every response the request returns, total_results equals the    *)
(* number of hotels in matched_hotels, on the empty-search return and on   *)
(* the normal return, also when ranked identifiers were dropped.           *)
(***************************************************************************)
C12_TotalCountsReturnedHotels ==
    response.kind = "RecommendationResponse" =>
        response.total_results = Len(response.matched_hotels)

\* a normal return after hydration dropped a ranked identifier
C12_Witness ==
    /\ stage = "DONE"
    /\ Ran("HYDRATE")
    /\ response.kind = "RecommendationResponse"
    /\ Len(response.matched_hotels) >= 1
    /\ Len(matched_hotel_ids) > Len(response.matched_hotels)

(***************************************************************************)
(* The hotel table exercised on its own: sequences of upserts              *)
(***************************************************************************)
MaxUpserts == 3

\* the request handler is at rest while the table operations run
PipelineIdle ==
    /\ client = TRUE
    /\ booking_api_key = FALSE
    /\ requests = 0
    /\ stage = "IDLE"
    /\ user_demand = ""
    /\ search_params = ToSearchParameters(
           ExtractionResponse(NoneStr, NoneStr, NoneStr, None, None, 1, 0, 1, NoneList))
    /\ hotels = <<>>
    /\ persist = "none"
    /\ matched_hotel_ids = <<>>
    /\ matched_hotels = <<>>
    /\ response = NoResponse
    /\ log = <<>>
    /\ reply = NoCall
    /\ lookup_failures = {}

pipeline == <<client, booking_api_key, requests, stage, user_demand, search_params, hotels,
              persist, matched_hotel_ids, matched_hotels, response, log, reply,
              lookup_failures, hash_secret>>

UpsertIds == {"h1", "h2"}
UpsertPayloads == {Alpha, AlphaNew, Beta}

UpsertCall(hotel_id, booking_data, ok) ==
    [op |-> "create_or_update_hotel", hotel_id |-> hotel_id,
     booking_data |-> booking_data, ok |-> ok]

StoreInit ==
    /\ PipelineIdle
    /\ store = {}
    /\ calls = <<>>
    /\ sessions = <<>>
    /\ hash_secret = [w \in Processes |-> 0]

\* create_or_update_hotel, its commit succeeding
UpsertHotel ==
    /\ Len(calls) < MaxUpserts
    /\ \E hotel_id \in UpsertIds, booking_data \in UpsertPayloads :
          /\ store' = create_or_update_hotel(store, hotel_id, booking_data)
          /\ calls' = Append(calls, UpsertCall(hotel_id, booking_data, TRUE))
    /\ UNCHANGED <<pipeline, sessions>>

\* create_or_update_hotel, db.commit() raising: nothing is committed
UpsertHotelCommitRaises ==
    /\ Len(calls) < MaxUpserts
    /\ \E hotel_id \in UpsertIds, booking_data \in UpsertPayloads :
          calls' = Append(calls, UpsertCall(hotel_id, booking_data, FALSE))
    /\ UNCHANGED <<pipeline, store, sessions>>

\* bulk_create_or_update_hotels over a candidate list, every commit succeeding
BulkUpsertHotels ==
    /\ Len(calls) < MaxUpserts
    /\ \E hotels_data \in LiveLists \ {<<>>} :
          LET identified(h) == HotelIdOf(h) # ""
              written == SelectSeq(hotels_data, identified)
          IN  /\ store' = bulk_create_or_update_hotels(store, hotels_data, 0).db
              /\ calls' = calls \o [i \in 1..Len(written) |->
                                       UpsertCall(HotelIdOf(written[i]), written[i], TRUE)]
    /\ UNCHANGED <<pipeline, sessions>>

StoreNext == UpsertHotel \/ UpsertHotelCommitRaises \/ BulkUpsertHotels

StoreSpec == StoreInit /\ [][StoreNext]_vars

\* the positions of the successful upserts of hotel_id
SuccessfulUpserts(hotel_id) ==
    {i \in 1..Len(calls) : calls[i].hotel_id = hotel_id /\ calls[i].ok}

LastOf(S) == CHOOSE i \in S : \A j \in S : j <= i

(***************************************************************************)
(* C13: after any sequence of upserts the table holds at most one record   *)
(* per hotel_id, and get_hotel(id) returns the payload of the most recent  *)
(* successful upsert of that id (no record when there was none).           *)
(***************************************************************************)
C13_OneRecordPerHotelId ==
    \A hotel_id \in {r.hotel_id : r \in store} \cup {calls[i].hotel_id : i \in 1..Len(calls)} :
        /\ Cardinality(RowsOf(store, hotel_id)) <= 1
        /\ IF SuccessfulUpserts(hotel_id) = {}
           THEN get_hotel(store, hotel_id) = NoRow
           ELSE get_hotel(store, hotel_id).booking_data
                    = calls[LastOf(SuccessfulUpserts(hotel_id))].booking_data

\* an identifier upserted twice with different payloads, then an upsert that failed
C13_Witness ==
    /\ Len(calls) = 3
    /\ calls[1].hotel_id = "h1" /\ calls[1].ok /\ calls[1].booking_data = Alpha
    /\ calls[2].hotel_id = "h1" /\ calls[2].ok /\ calls[2].booking_data = AlphaNew
    /\ calls[3].hotel_id = "h1" /\ ~calls[3].ok /\ calls[3].booking_data = Beta
    /\ get_hotel(store, "h1").booking_data = AlphaNew

(***************************************************************************)
(* Two requests in flight, each in its own database session, upserting     *)
(* through create_or_update_hotel: the look-up, the in-memory change and   *)
(* the commit of one session interleave with those of the other.           *)
(***************************************************************************)
SessionNames == {"a", "b"}

\* a session before its call of create_or_update_hotel
SessionIdle ==
    [pc |-> "idle", hotel_id |-> "", booking_data |-> NoRow.booking_data,
     db_hotel |-> NoRow, pending |-> "none"]

ConcurrentInit ==
    /\ PipelineIdle
    /\ store \in {{}, {Row("h1", Alpha)}}
    /\ calls = <<>>
    /\ sessions = [s \in SessionNames |-> SessionIdle]
    /\ hash_secret = [w \in Processes |-> 0]

\* create_or_update_hotel(db, hotel_id, booking_data) is called in session s
SessionCall(s) ==
    /\ sessions[s].pc = "idle"
    /\ \E hotel_id \in UpsertIds, booking_data \in UpsertPayloads :
          sessions' = [sessions EXCEPT ![s].pc = "get_hotel",
                                       ![s].hotel_id = hotel_id,
                                       ![s].booking_data = booking_data]
    /\ UNCHANGED <<pipeline, store, calls>>

\* db_hotel = get_hotel(db, hotel_id): reads what is committed
SessionGetHotel(s) ==
    /\ sessions[s].pc = "get_hotel"
    /\ sessions' = [sessions EXCEPT ![s].pc = "change",
                                    ![s].db_hotel = get_hotel(store, sessions[s].hotel_id)]
    /\ UNCHANGED <<pipeline, store, calls>>

\* the if statement: the record is changed in memory, or a new one is added
SessionChange(s) ==
    /\ sessions[s].pc = "change"
    /\ sessions' = [sessions EXCEPT ![s].pc = "commit",
                                    ![s].pending = IF sessions[s].db_hotel # NoRow
                                                   THEN "update" ELSE "insert"]
    /\ UNCHANGED <<pipeline, store, calls>>

\* db.commit(): the pending statement is flushed and committed; an INSERT of a
\* hotel_id that is in the table by now violates the primary key
SessionCommit(s) ==
    /\ sessions[s].pc = "commit"
    /\ LET me == sessions[s]
           conflict == me.pending = "insert" /\ RowsOf(store, me.hotel_id) # {}
       IN  /\ store' = IF conflict THEN store
                       ELSE (store \ RowsOf(store, me.hotel_id))
                                \cup {Row(me.hotel_id, me.booking_data)}
           /\ sessions' = [sessions EXCEPT ![s].pc = IF conflict THEN "IntegrityError"
                                                     ELSE "returned"]
           /\ calls' = Append(calls, [session |-> s, hotel_id |-> me.hotel_id,
                                      booking_data |-> me.booking_data, ok |-> ~conflict])
    /\ UNCHANGED pipeline

ConcurrentNext ==
    \E s \in SessionNames :
        SessionCall(s) \/ SessionGetHotel(s) \/ SessionChange(s) \/ SessionCommit(s)

ConcurrentSpec == ConcurrentInit /\ [][ConcurrentNext]_vars

SessionsFinished == \A s \in SessionNames : sessions[s].pc \in {"returned", "IntegrityError"}

(***************************************************************************)
(* C14: with the look-up, change and commit of two requests interleaved,   *)
(* the table holds at most one record per identifier, its payload is the   *)
(* payload of one of the writes (or the one it had before), and when both  *)
(* requests have finished the record of an identifier carries the payload  *)
(* of the write of that identifier that was performed last.                *)
(***************************************************************************)
C14_RecordsNotCorrupted ==
    \A hotel_id \in UpsertIds :
        /\ Cardinality(RowsOf(store, hotel_id)) <= 1
        /\ \A r \in RowsOf(store, hotel_id) :
              \/ r = Row("h1", Alpha)
              \/ \E i \in 1..Len(calls) : /\ calls[i].hotel_id = hotel_id
                                          /\ calls[i].booking_data = r.booking_data

C14_LastWriteWins ==
    /\ C14_RecordsNotCorrupted
    /\ SessionsFinished =>
          \A hotel_id \in UpsertIds :
              LET writes == {i \in 1..Len(calls) : calls[i].hotel_id = hotel_id}
              IN  writes # {} =>
                     get_hotel(store, hotel_id).booking_data = calls[LastOf(writes)].booking_data

(***************************************************************************)
(* C15: only the PERSIST step changes the hotel table: the steps EXTRACT,  *)
(* SEARCH, RANK and HYDRATE, the early return on an empty search and the   *)
(* final return leave every record as it was.                              *)
(***************************************************************************)
C15_OnlyPersistWrites ==
    [][store' # store => (stage = "SEARCH" /\ stage' = "PERSIST")]_vars

\* a second request has run through every step over a table the first one filled
C15_Witness ==
    /\ requests = 2
    /\ stage = "DONE"
    /\ Ran("RANK") /\ Ran("HYDRATE")
    /\ store # {}
    /\ \E i \in 1..Len(log) : IsLookup(log[i])

(***************************************************************************)
(* C16: a candidate without an identifier is skipped everywhere: it is     *)
(* never written to the table, never named by the fallback ranker, never   *)
(* part of the final result, and it never makes the request fail.          *)
(***************************************************************************)
C16_UnidentifiedSkipped ==
    /\ \A r \in store : HasHotelId(r.booking_data)
    /\ (FallbackUsed /\ stage = "RANK") => RankedIds \subseteq FreshIds
    /\ \A k \in 1..Len(matched_hotels) : HasHotelId(matched_hotels[k].raw_data)
    /\ SummaryRaises(hotels) = SummaryRaises(SelectSeq(hotels, HasHotelId))
    /\ FallbackRaises(hotels) = FallbackRaises(SelectSeq(hotels, HasHotelId))

(***************************************************************************)
(* The synthetic provider exercised on its own: _get_mock_hotels called    *)
(* in worker processes that drew their hash secrets independently          *)
(***************************************************************************)
MaxMockCalls == 2

HashSecrets == {0, 1}

MockParameters(location, budget_min, budget_max, preferences) ==
    ToSearchParameters(ExtractionResponse(location, NoneStr, NoneStr, budget_min, budget_max,
                                          2, 0, 1, preferences))

\* search parameters: location absent and the default city, bounds absent, zero,
\* and equal to catalog prices, preferences absent, matching some and matching none
MockParamsPool ==
    { MockParameters(NoneStr, None, None, NoneList),
      MockParameters("Paris", None, None, NoneList),
      MockParameters("Rome", None, 0, NoneList),
      MockParameters("Rome", 12000, 18000, NoneList),
      MockParameters("Rome", 0, 6500, NoneList),
      MockParameters("Rome", None, None, <<"romantic">>),
      MockParameters("Rome", None, None, <<"quiet">>),
      MockParameters("Rome", None, 18000, <<"Luxury", "pool">>) }

MockInit ==
    /\ PipelineIdle
    /\ store = {}
    /\ calls = <<>>
    /\ sessions = <<>>
    /\ hash_secret \in [Processes -> HashSecrets]

\* BookingService._get_mock_hotels(parameters) is called in a worker process
GetMockHotels ==
    /\ Len(calls) < MaxMockCalls
    /\ \E worker \in Processes, parameters \in MockParamsPool :
          calls' = Append(calls,
                      [worker |-> worker,
                       parameters |-> parameters,
                       hotels |-> get_mock_hotels(parameters),
                       offsets |-> mock_coord_offsets(hash_secret[worker], parameters)])
    /\ UNCHANGED <<pipeline, store, sessions>>

MockNext == GetMockHotels

MockSpec == MockInit /\ [][MockNext]_vars

\* (location, budget_min, budget_max, preferences) of a call
QueryTuple(call) ==
    <<call.parameters.location, call.parameters.budget_min, call.parameters.budget_max,
      call.parameters.preferences>>

IdsOf(hotel_list) == [i \in 1..Len(hotel_list) |-> hotel_list[i].hotel_id]

(***************************************************************************)
(* C17: two calls of _get_mock_hotels with the same (location, budget_min, *)
(* budget_max, preferences) return the same identifiers in the same order  *)
(* and the same latitude / longitude offsets, whatever process serves them.*)
(***************************************************************************)
C17_MockDeterministic ==
    \A i, j \in 1..Len(calls) :
        QueryTuple(calls[i]) = QueryTuple(calls[j]) =>
            /\ IdsOf(calls[i].hotels) = IdsOf(calls[j].hotels)
            /\ calls[i].offsets = calls[j].offsets

(***************************************************************************)
(* C18: two queries that differ in location, budget_min, budget_max or     *)
(* preferences (location absent and location "Paris" included) get         *)
(* different fingerprint prefixes, so none of their identifiers coincide.  *)
(***************************************************************************)
C18_FingerprintsDiffer ==
    \A i, j \in 1..Len(calls) :
        QueryTuple(calls[i]) # QueryTuple(calls[j]) =>
            /\ Md5Hex8(QueryKey(calls[i].parameters)) # Md5Hex8(QueryKey(calls[j].parameters))
            /\ \A a \in 1..Len(calls[i].hotels), b \in 1..Len(calls[j].hotels) :
                  calls[i].hotels[a].hotel_id # calls[j].hotels[b].hotel_id

\* the catalog _get_mock_hotels generated for a call, before it was filtered
CatalogOf(call) ==
    generate_mock_hotel_database(
        IF call.parameters.location \in {NoneStr, ""} THEN "Paris"
        ELSE call.parameters.location,
        Md5Hex8(QueryKey(call.parameters)))

(***************************************************************************)
(* C19: every hotel the synthetic path returns has a price within the      *)
(* bounds that are present, whatever their value (zero included); without  *)
(* preferences every catalog hotel within the bounds is returned, so one   *)
(* priced exactly budget_max is kept; an absent bound does not restrict.   *)
(***************************************************************************)
C19_BudgetBoundsRespected ==
    \A c \in 1..Len(calls) :
        LET p == calls[c].parameters
            within(h) == /\ p.budget_max # None => h.price <= p.budget_max
                         /\ p.budget_min # None => h.price >= p.budget_min
        IN  /\ \A i \in 1..Len(calls[c].hotels) : within(calls[c].hotels[i])
            /\ p.preferences = <<>> => calls[c].hotels = SelectSeq(CatalogOf(calls[c]), within)

\* the result of a call made with preferences is an ordering by preference score of
\* the hotels the budget test kept: of all of them (keep_zero) or, when some hotel
\* scored above zero, of those that did
OrderedByPreference(call, keep_zero) ==
    LET p == call.parameters
        kept_by_budget(h) == /\ Truthy(p.budget_max) => h.price <= p.budget_max
                             /\ Truthy(p.budget_min) => h.price >= p.budget_min
        survivors == SelectSeq(CatalogOf(call), kept_by_budget)
        pref_lower == [i \in 1..Len(p.preferences) |-> StrLower(p.preferences[i])]
        score == [i \in 1..Len(survivors) |-> MockPreferenceScore(survivors[i], pref_lower)]
        chosen == IF keep_zero \/ \A i \in 1..Len(survivors) : score[i] = 0
                  THEN 1..Len(survivors)
                  ELSE {i \in 1..Len(survivors) : score[i] > 0}
        before(j, i) == score[j] > score[i] \/ (score[j] = score[i] /\ j < i)
        rank(i) == 1 + Cardinality({j \in chosen : before(j, i)})
    IN  /\ Len(call.hotels) = Cardinality(chosen)
        /\ \A i \in chosen : call.hotels[rank(i)] = survivors[i]

(***************************************************************************)
(* C20 as stated: with preferences present the result is every hotel that  *)
(* survived the budget filter, sorted by preference score descending with  *)
(* ties in catalog order.                                                  *)
(***************************************************************************)
C20_AllSurvivorsSorted ==
    \A c \in 1..Len(calls) :
        calls[c].parameters.preferences # <<>> => OrderedByPreference(calls[c], TRUE)

(***************************************************************************)
(* C20 amended: with preferences present the result is the budget          *)
(* survivors that scored above zero, sorted by score descending with ties  *)
(* in catalog order; when every survivor scored zero it is all of them in  *)
(* catalog order.                                                          *)
(***************************************************************************)
C20_MatchingSurvivorsSorted ==
    \A c \in 1..Len(calls) :
        calls[c].parameters.preferences # <<>> => OrderedByPreference(calls[c], FALSE)

\* one call whose preferences match some hotels and not others, one whose
\* preferences match none
C20_Witness ==
    /\ Len(calls) = 2
    /\ calls[1].parameters.preferences = <<"Luxury", "pool">>
    /\ Len(calls[1].hotels) >= 2
    /\ Len(calls[1].hotels) < Cardinality({k \in 1..10 : CatalogOf(calls[1])[k].price <= 18000})
    /\ calls[2].parameters.preferences = <<"quiet">>
    /\ Len(calls[2].hotels) = 10

(***************************************************************************)
(* BookingService.search_hotels exercised on its own, against an inventory *)
(* provider whose call may fail in every way the try statement can meet    *)
(***************************************************************************)
MaxSearchCalls == 2

\* what the statements inside the try of search_hotels can raise: transport errors and
\* time-outs of client.get, raise_for_status() on an error status, response.json() on a
\* body that is no JSON, data.get on a JSON body that is no object
LiveFailures ==
    { Raise("ConnectError", "All connection attempts failed"),
      Raise("ReadTimeout", "The read operation timed out"),
      Raise("HTTPStatusError", "Server error '503 Service Unavailable'"),
      Raise("JSONDecodeError", "Expecting value: line 1 column 1 (char 0)"),
      Raise("AttributeError", "'list' object has no attribute 'get'") }

SearchInit ==
    /\ client = TRUE
    /\ booking_api_key \in BOOLEAN
    /\ requests = 0
    /\ stage = "IDLE"
    /\ user_demand = ""
    /\ search_params = ToSearchParameters(
           ExtractionResponse(NoneStr, NoneStr, NoneStr, None, None, 1, 0, 1, NoneList))
    /\ hotels = <<>>
    /\ persist = "none"
    /\ matched_hotel_ids = <<>>
    /\ matched_hotels = <<>>
    /\ response = NoResponse
    /\ log = <<>>
    /\ reply = NoCall
    /\ lookup_failures = {}
    /\ store = {}
    /\ calls = <<>>
    /\ sessions = <<>>
    /\ hash_secret = [w \in Processes |-> 0]

\* booking_service.search_hotels(parameters) is called
SearchHotels ==
    /\ Len(calls) < MaxSearchCalls
    /\ \E parameters \in { MockParameters("Rome", 12000, 18000, NoneList),
                           MockParameters(NoneStr, None, None, <<"romantic">>) },
          live \in LiveFailures \cup {Return(<<>>), Return(<<Alpha, Beta>>)} :
          calls' = Append(calls, [parameters |-> parameters, live |-> live,
                                  result |-> search_hotels(booking_api_key, parameters, live)])
    /\ UNCHANGED <<pipeline, store, sessions>>

SearchSpec == SearchInit /\ [][SearchHotels]_vars

(***************************************************************************)
(* C21: with an inventory credential configured, a live call that fails    *)
(* (transport error, time-out, error status, malformed body) makes         *)
(* search_hotels return what the synthetic path returns for the same       *)
(* parameters; the call returns a list in every case.                      *)
(***************************************************************************)
C21_LiveFailureDegradesToMock ==
    \A c \in 1..Len(calls) :
        (booking_api_key /\ ~calls[c].live.ok) =>
            calls[c].result = get_mock_hotels(calls[c].parameters)

\* a credential is configured, the body of the live answer was no JSON and the
\* synthetic hotels were returned
C21_Witness ==
    /\ booking_api_key
    /\ Len(calls) = 2
    /\ calls[1].live.ok /\ calls[1].result = <<Alpha, Beta>>
    /\ ~calls[2].live.ok /\ calls[2].live.type = "JSONDecodeError"
    /\ Len(calls[2].result) >= 1

(***************************************************************************)
(* C22: with no inference and no inventory credential, the demand          *)
(* "romantic boutique hotel in Paris under 200 euros" reaches DONE with    *)
(* location "Paris", budget_max 200.0 and preferences ["romantic"]; the    *)
(* result has at most 12 hotels, none priced above 200, and the romantic   *)
(* boutique hotel is first.                                                *)
(***************************************************************************)
C22_EndToEndScenario ==
    (/\ ~client /\ ~booking_api_key
     /\ user_demand = "romantic boutique hotel in Paris under 200 euros"
     /\ Ran("EXTRACT")) =>
        /\ stage # "ERROR"
        /\ search_params.location = "Paris"
        /\ search_params.budget_max = 20000
        /\ search_params.preferences = <<"romantic">>
        /\ stage = "DONE" =>
              /\ Len(response.matched_hotels) \in 1..12
              /\ \A k \in 1..Len(response.matched_hotels) :
                    response.matched_hotels[k].price <= 20000
              /\ Contains(response.matched_hotels[1].hotel_id, "_boutique_1")

(***************************************************************************)
(* The two rule-based fallbacks of ChatGPTService exercised on their own   *)
(***************************************************************************)
MaxFallbackCalls == 1

FallbackDemands ==
    { "hotels under 150",
      "cheap stay",
      "up to 300 or under 200 per night",
      "business hotel max 150",
      "Maximum 120 for 2 adults",
      "max 150 or 200€ with spa",
      "family trip to the beach, 90 euro",
      "quiet room in Lyon",
      "below 80 in Rome", "less than 99", "70 eur per night",
      "premium suite", "affordable room", "honeymoon", "holiday with kids",
      "corporate travel", "seaside", "swimming", "massage" }

\* two candidates that differ only in what makes a hotel a business hotel
BusinessTwins ==
    << LiveHotel("b1", "City Business Hotel", 12000, 42, 84,
                 <<"WiFi", "Business Center">>, "Rooms for business travelers"),
       LiveHotel("b2", "City Hotel", 12000, 42, 84, <<"WiFi">>, "Rooms for travelers") >>

\* _fallback_extract_parameters(user_demand) is called
ExtractFallback ==
    /\ Len(calls) < MaxFallbackCalls
    /\ \E demand \in FallbackDemands :
          calls' = Append(calls, [op |-> "_fallback_extract_parameters", demand |-> demand,
                                  hotels |-> <<>>,
                                  result |-> fallback_extract_parameters(demand)])
    /\ UNCHANGED <<pipeline, store, sessions>>

\* _fallback_filter_hotels(user_demand, hotels) is called: the ceiling and the
\* preferences it detects, the score of each candidate, and what it returns or raises
FilterFallback ==
    /\ Len(calls) < MaxFallbackCalls
    /\ \E demand \in FallbackDemands,
          hotel_list \in { get_mock_hotels(MockParameters("Rome", None, None, NoneList)),
                           BusinessTwins, <<Alpha, Beta>>, <<Beta, Gamma>>,
                           <<AlphaNew, NoId, NullId>>, <<Delta>> } :
          LET user_lower == StrLower(demand)
              budget_max == FallbackFilterBudgetMax(user_lower)
              detected == DetectTags(user_lower, preference_keywords)
          IN  calls' = Append(calls,
                  [op |-> "_fallback_filter_hotels", demand |-> demand,
                   hotels |-> hotel_list,
                   result |-> [budget_max |-> budget_max,
                               detected_preferences |-> detected,
                               score |-> [i \in 1..Len(hotel_list) |->
                                            FallbackScore(hotel_list[i], budget_max, detected)],
                               unbiased |-> [i \in 1..Len(hotel_list) |->
                                            FallbackScore(hotel_list[i], budget_max, <<>>)],
                               outcome |-> fallback_filter_hotels(demand, hotel_list)]])
    /\ UNCHANGED <<pipeline, store, sessions>>

FallbackNext == ExtractFallback \/ FilterFallback

\* the fallbacks are called with the request handler and the table at rest
FallbackSpec == StoreInit /\ [][FallbackNext]_vars

\* a demand with a budget keyword and no number
BudgetWordOnly(demand) ==
    /\ \E kw \in {"budget", "cheap", "affordable"} : Contains(StrLower(demand), kw)
    /\ \A i \in 1..Len(demand) : ~IsDigit(CharAt(demand, i))

(***************************************************************************)
(* C23: on a demand with a budget keyword and no numeric budget pattern,   *)
(* such as "cheap stay", the fallback's budget extraction yields a ceiling *)
(* that is not null and is low (at most 100).                              *)
(***************************************************************************)
C23_BudgetWordGivesLowCeiling ==
    \A c \in 1..Len(calls) :
        BudgetWordOnly(calls[c].demand) =>
            /\ calls[c].result.budget_max # None
            /\ calls[c].result.budget_max <= 10000

(***************************************************************************)
(* C24: the fallback extractor sets budget_max to the number captured by   *)
(* the first pattern, in the order under, below, less than, up to, max,    *)
(* maximum, N€, N eur, N euro, that matches the lower-cased demand, and to *)
(* null when none matches; budget_min, check_in and check_out are null and *)
(* children is 0 for every demand.                                         *)
(***************************************************************************)
C24_FirstPatternSetsBudgetMax ==
    \A c \in 1..Len(calls) :
        calls[c].op = "_fallback_extract_parameters" =>
            LET d == calls[c].demand
                r == calls[c].result
            IN  /\ r.budget_min = None
                /\ r.check_in = NoneStr
                /\ r.check_out = NoneStr
                /\ r.children = 0
                /\ r.budget_max =
                      CASE d = "hotels under 150" -> 15000
                        [] d = "up to 300 or under 200 per night" -> 20000
                        [] d = "business hotel max 150" -> 15000
                        [] d = "Maximum 120 for 2 adults" -> 12000
                        [] d = "max 150 or 200€ with spa" -> 15000
                        [] d = "family trip to the beach, 90 euro" -> 9000
                        [] d = "below 80 in Rome" -> 8000
                        [] d = "less than 99" -> 9900
                        [] d = "70 eur per night" -> 7000
                        [] OTHER -> None

\* a demand two patterns match: the one earlier in the priority order decides
C24_Witness ==
    /\ Len(calls) = 1
    /\ calls[1].op = "_fallback_extract_parameters"
    /\ calls[1].demand = "max 150 or 200€ with spa"
    /\ calls[1].result.budget_max = 15000

(***************************************************************************)
(* The parsing of the extraction reply (extract_search_parameters, the     *)
(* inner try statement) on message contents given as text                  *)
(***************************************************************************)
MaxParseCalls == 2

\* content.find(sub, start): 0-based index of the first occurrence of sub at or after
\* start, -1 when there is none
StrFind(s, sub, start) ==
    LET hits == {i \in start..(Len(s) - Len(sub)) : Slice(s, i + 1, i + Len(sub)) = sub}
    IN  IF hits = {} THEN -1 ELSE MinOf(hits)

\* s[a:b] for a >= 0; a negative b counts from the end
PySlice(s, a, b) == Slice(s, a + 1, IF b < 0 THEN Len(s) + b ELSE b)

RECURSIVE StrStrip(_)
\* s.strip()
StrStrip(s) ==
    LET white(c) == c \in {" ", "\n", "\t", "\r"}
    IN  IF s = "" THEN s
        ELSE IF white(CharAt(s, 1)) THEN StrStrip(Slice(s, 2, Len(s)))
        ELSE IF white(CharAt(s, Len(s))) THEN StrStrip(Slice(s, 1, Len(s) - 1))
        ELSE s

\* the JSON documents of the replies and the parameters each one holds
JsonDocuments ==
    [t \in {"{\"location\": \"Rome\", \"budget_max\": 50}", "{\"budget_min\": 150, \"adults\": 2}"} |->
        IF t = "{\"location\": \"Rome\", \"budget_max\": 50}"
        THEN ExtractionResponse("Rome", NoneStr, NoneStr, None, 5000, 1, 0, 1, NoneList)
        ELSE ExtractionResponse(NoneStr, NoneStr, NoneStr, 15000, None, 2, 0, 1, NoneList)]

\* ChatGPTParameterExtractionResponse(**json.loads(text)): white space around the
\* document is allowed, any other text raises JSONDecodeError
json_loads(text) ==
    IF StrStrip(text) \in DOMAIN JsonDocuments THEN Return(JsonDocuments[StrStrip(text)])
    ELSE Raise("JSONDecodeError", "Expecting value")

\* the inner try statement, answering a reply that cannot be parsed with default
\* parameters
parse_content_defaulting(content) ==
    LET first == json_loads(content)
    IN  IF first.ok THEN [outcome |-> first, parsed |-> <<content>>]
        ELSE [outcome |-> Return(ExtractionResponse(NoneStr, NoneStr, NoneStr, None, None,
                                                    1, 0, 1, NoneList)),
              parsed |-> <<content>>]

\* the inner try statement: what it returns or raises, and the texts given to json.loads
parse_content(content) ==
    LET first == json_loads(content)
    IN  IF first.ok THEN [outcome |-> first, parsed |-> <<content>>]
        ELSE IF Contains(content, "~~~json")
        THEN LET json_start == StrFind(content, "~~~json", 0) + 7
                 json_end   == StrFind(content, "~~~", json_start)
                 inner      == StrStrip(PySlice(content, json_start, json_end))
             IN  [outcome |-> json_loads(inner), parsed |-> <<content, inner>>]
        ELSE [outcome |-> first, parsed |-> <<content>>]

\* message contents: a document or other text, bare or inside a fence that is tagged
\* json or not, closed or not, with or without text around it.  The grave accent of
\* the fence is written ~ in the strings of this module
ContentOpenings == {"", "~~~json\n", "~~~json", "~~~\n", "Here are the parameters:\n~~~json\n"}
ContentBodies ==
    DOMAIN JsonDocuments \cup {"location: Rome, budget: 50", "{\"location\": \"Ro"}
ContentEndings == {"", "\n~~~", "\n~~~\nLet me know if you need more."}

\* the message content of a reply is parsed
ParseContent ==
    /\ Len(calls) < MaxParseCalls
    /\ \E opening \in ContentOpenings, body \in ContentBodies, ending \in ContentEndings :
          calls' = Append(calls, [opening |-> opening, body |-> body, ending |-> ending,
                                  result |-> parse_content(opening \o body \o ending)])
    /\ UNCHANGED <<pipeline, store, sessions>>

ParseSpec == StoreInit /\ [][ParseContent]_vars

C26_OffsetsDifferAcrossArchetypes ==
    \A c \in 1..Len(calls) :
        \A a, b \in 1..Len(calls[c].offsets) :
            a # b => calls[c].offsets[a] # calls[c].offsets[b]

(***************************************************************************)
(* C27: in the fallback ranker each of the eight keyword families, when it *)
(* is detected in the demand, adds 3 to 5 points per matching signal to    *)
(* the candidates that satisfy the family's condition; a demand with a     *)
(* business keyword scores a business hotel above a hotel that is the same *)
(* in everything else.                                                     *)
(***************************************************************************)
C27_EveryFamilyAddsItsBonus ==
    \A c \in 1..Len(calls) :
        calls[c].op = "_fallback_filter_hotels" =>
            LET r == calls[c].result
                bonus(i) == r.score[i] - r.unbiased[i]
            IN  /\ (Len(r.detected_preferences) = 1 /\ Len(calls[c].hotels) = 10) =>
                      /\ \A i \in 1..10 : bonus(i) \in {0, 300, 500, 800}
                      /\ \E i \in 1..10 : bonus(i) >= 300
                /\ (r.detected_preferences = <<"business">> /\ calls[c].hotels = BusinessTwins)
                      => r.score[1] > r.score[2]

(***************************************************************************)
(* C28: in every final result a hotel_id appears at most once in           *)
(* matched_hotels, whatever identifier list the ranker returned and        *)
(* whatever the table holds.                                               *)
(***************************************************************************)
C28_ResultIdsUnique ==
    \A k, l \in 1..Len(matched_hotels) :
        k # l => matched_hotels[k].hotel_id # matched_hotels[l].hotel_id

(***************************************************************************)
(* C29: the bulk upsert commits one candidate at a time, in batch order.   *)
(* When it fails on the k-th candidate, the candidates before it are in    *)
(* the table with their new payloads and no candidate at or after position *)
(* k has been written by the call; when it does not fail, every candidate  *)
(* with an identifier has been written.                                    *)
(***************************************************************************)
C29_BulkStopsAtFailure ==
    [][(stage = "SEARCH" /\ stage' = "PERSIST") =>
          \E k \in 1..(Len(hotels) + 1) :
              /\ (persist' = "failed") <=> (k <= Len(hotels))
              /\ k <= Len(hotels) => HotelIdOf(hotels[k]) # ""
              /\ \A id \in StoredIds \cup StoredIds'
                            \cup {HotelIdOf(hotels[i]) : i \in 1..Len(hotels)} :
                    LET before == {i \in 1..(k - 1) : HotelIdOf(hotels[i]) = id /\ id # ""}
                    IN  IF before # {}
                        THEN RowsOf(store', id) = {Row(id, hotels[LastOf(before)])}
                        ELSE RowsOf(store', id) = RowsOf(store, id)]_vars

\* the upsert failed on the second candidate: the first one is in the table with its
\* new payload, the second one is not
C29_Witness ==
    /\ stage = "PERSIST"
    /\ persist = "failed"
    /\ Len(hotels) >= 2
    /\ RowsOf(store, HotelIdOf(hotels[1])) = {Row(HotelIdOf(hotels[1]), hotels[1])}
    /\ HotelIdOf(hotels[2]) # ""
    /\ RowsOf(store, HotelIdOf(hotels[2])) = {}

(***************************************************************************)
(* C30: the two rule-based fallbacks agree on the budget ceiling: whenever *)
(* the fallback extractor derives budget_max = N from a numeric pattern of *)
(* a demand, the fallback ranker detects the ceiling N for that demand.    *)
(***************************************************************************)
C30_FallbacksAgreeOnCeiling ==
    \A c \in 1..Len(calls) :
        calls[c].op = "_fallback_filter_hotels" =>
            LET extracted == fallback_extract_parameters(calls[c].demand).budget_max
            IN  extracted # None => calls[c].result.budget_max = extracted

====
